---- MODULE Spec2Model ----
(***************************************************************************)
(* Model of the image-URL helpers of src/src/lib/cloudinary.ts and of the   *)
(* Shopify operations of src/src/lib/shopify.ts and shopify-admin.ts.      *)
(*                                                                         *)
(* Strings are sequences of one-character strings, so that prefixes,       *)
(* separators and individual characters of a URL can be inspected.         *)
(* JavaScript values are tagged records; numbers are kept in tenths        *)
(* (m = 10 * value) so that 1.5 and 400 * 1.5 can be represented.          *)
(***************************************************************************)
EXTENDS Integers, Sequences, FiniteSets, TLC

VARIABLES
  metaEnv,        \* import.meta.env, or absent
  processEnv,     \* process.env, or absent
  publicId,       \* argument of buildCloudinaryUrl (a string)
  transforms,     \* argument of buildCloudinaryUrl: <<field, value>> pairs in insertion order
  transformParts, \* the local array of buildCloudinaryUrl after the call
  url,            \* the value returned by the last call
  pc,             \* "ready" before the call, "built" after it
  calls,          \* the calls made so far in this process, with what each returned
  candidate,      \* argument of validatePublicId (any value)
  valid,          \* the value validatePublicId returned
  vpc,            \* "ready" before validatePublicId ran, "done" after it
  fn,             \* the helper that was called, "" before any call
  baseTransforms, \* argument of the two srcset helpers
  supportDpr,     \* argument of getCloudinaryDprSrcset, undefined when not passed
  width,          \* argument of getFallbackImageUrl, undefined when not passed
  height,         \* argument of getFallbackImageUrl, undefined when not passed
  srcsetEntries,  \* the local array of the srcset helper after the call
  srcset,         \* the srcset the helper returned
  sizes,          \* the sizes the helper returned
  STORE_DOMAIN,            \* PUBLIC_SHOPIFY_STORE_DOMAIN as read when the modules load
  STOREFRONT_ACCESS_TOKEN, \* PUBLIC_SHOPIFY_STOREFRONT_ACCESS_TOKEN, likewise
  ADMIN_ACCESS_TOKEN,      \* SHOPIFY_ADMIN_ACCESS_TOKEN, likewise
  PRODUCT_ID,              \* PUBLIC_SHOPIFY_PRODUCT_ID, likewise
  op,             \* the Shopify operation that was called, "" before any call
  requests,       \* the network requests the operation issued, in order
  returned,       \* what the operation returned
  threw,          \* whether the operation ended by throwing
  tags,           \* argument of addCustomerTags: the tags to add
  customerTags,   \* customer.tags as the lookup of addCustomerTags returned it
  currentDate,    \* the date the sitemap handler read from the clock
  response,       \* the response of the sitemap handler, undefined before the request
  variant,        \* which alternate module was called: "simple" or "urlgen", "" before
  options,        \* argument of getResponsiveImageUrls of the alternate modules
  urls            \* what getResponsiveImageUrls returned, undefined before the call

helperVars == <<fn, baseTransforms, supportDpr, width, height, srcsetEntries, srcset, sizes>>

builderVars == <<metaEnv, processEnv, publicId, transforms, transformParts, url, pc,
                 calls, candidate, valid, vpc>>

shopVars == <<STORE_DOMAIN, STOREFRONT_ACCESS_TOKEN, ADMIN_ACCESS_TOKEN, PRODUCT_ID,
              op, requests, returned, threw, tags, customerTags>>

sitemapVars == <<currentDate, response>>

variantVars == <<variant, options, urls>>

vars == <<metaEnv, processEnv, publicId, transforms, transformParts, url, pc,
          calls, candidate, valid, vpc, helperVars, shopVars, sitemapVars, variantVars>>

-----------------------------------------------------------------------------
(* Bounds of the model *)

\* fields populated in an options record (beside the written-out examples)
MaxFields == 2
\* calls of one process
MaxCalls == 3
\* characters of an identifier given to validatePublicId
MaxIdLen == 3

\* the largest number of fields of a base options record
MaxBaseFields == 2

\* the last day of a month on which the sitemap is requested, beside the 28th
MaxDay == 5

\* the largest number of tags of a customer, and of tags added in one call
MaxTags == 2

-----------------------------------------------------------------------------
(* JavaScript values *)

Undefined == [t |-> "undefined"]
NaN == [t |-> "nan"]
Num(i) == [t |-> "num", m |-> 10 * i]
Dec(i, f) == [t |-> "num", m |-> 10 * i + f]
Str(s) == [t |-> "str", s |-> s]
Bool(b) == [t |-> "bool", b |-> b]

\* ToBoolean, as applied by `if (x)` and `x || y`
Truthy(v) ==
  CASE v.t = "undefined" -> FALSE
    [] v.t = "nan" -> FALSE
    [] v.t = "num" -> v.m # 0
    [] v.t = "str" -> v.s # <<>>
    [] v.t = "bool" -> v.b

Abs(i) == IF i < 0 THEN -i ELSE i

DigitChar(d) == <<"0", "1", "2", "3", "4", "5", "6", "7", "8", "9">>[d + 1]

RECURSIVE Digits(_)
Digits(n) == IF n < 10 THEN <<DigitChar(n)>> ELSE Digits(n \div 10) \o <<DigitChar(n % 10)>>

\* Number::toString for a number given in tenths
NumberToString(m) ==
  LET a == Abs(m)
  IN  (IF m < 0 THEN <<"-">> ELSE <<>>)
      \o Digits(a \div 10)
      \o (IF a % 10 = 0 THEN <<>> ELSE <<".">> \o Digits(a % 10))

\* ToString, as applied by a template literal `${x}` and by Array.prototype.join
ToStr(v) ==
  CASE v.t = "undefined" -> <<"u","n","d","e","f","i","n","e","d">>
    [] v.t = "nan" -> <<"N","a","N">>
    [] v.t = "num" -> NumberToString(v.m)
    [] v.t = "str" -> v.s
    [] v.t = "bool" -> IF v.b THEN <<"t","r","u","e">> ELSE <<"f","a","l","s","e">>

-----------------------------------------------------------------------------
(* The options record *)

\* the fields of CloudinaryTransforms, in declaration order
FieldNames ==
  << "width", "height", "aspectRatio", "crop", "gravity", "quality", "format",
     "fetchFormat", "dpr", "brightness", "contrast", "saturation", "gamma",
     "vibrance", "hue", "opacity", "blur", "sharpen", "unsharpMask", "sepia",
     "grayscale", "blackwhite", "negate", "oilPaint", "vignette", "pixelate",
     "border", "background", "angle", "progressive", "immutableCache",
     "stripProfile", "customTransform" >>

\* transforms.<f>: the value of the pair holding f, undefined when there is none
Get(tr, f) ==
  IF \E i \in 1..Len(tr) : tr[i][1] = f
  THEN tr[CHOOSE i \in 1..Len(tr) : tr[i][1] = f][2]
  ELSE Undefined

HasField(tr, f) == \E i \in 1..Len(tr) : tr[i][1] = f

-----------------------------------------------------------------------------
(* getCloudName *)

AbsentEnv == [present |-> FALSE]
Env(v) == [present |-> TRUE, PUBLIC_CLOUDINARY_CLOUD_NAME |-> v]

\* (faulty variant) process.env is consulted when import.meta.env has no name
getCloudNameFallThrough ==
  IF metaEnv.present /\ Truthy(metaEnv.PUBLIC_CLOUDINARY_CLOUD_NAME)
  THEN metaEnv.PUBLIC_CLOUDINARY_CLOUD_NAME
  ELSE IF processEnv.present /\ Truthy(processEnv.PUBLIC_CLOUDINARY_CLOUD_NAME)
       THEN processEnv.PUBLIC_CLOUDINARY_CLOUD_NAME ELSE Str(<<"d","e","m","o">>)

\* (faulty variant) the name is resolved at the first call and kept
getCloudNameCached ==
  LET meta == IF calls = <<>> THEN metaEnv ELSE calls[1].metaEnv
  IN  IF meta.present /\ Truthy(meta.PUBLIC_CLOUDINARY_CLOUD_NAME)
      THEN meta.PUBLIC_CLOUDINARY_CLOUD_NAME ELSE Str(<<"d","e","m","o">>)

getCloudName ==
  IF metaEnv.present
  THEN IF Truthy(metaEnv.PUBLIC_CLOUDINARY_CLOUD_NAME)
       THEN metaEnv.PUBLIC_CLOUDINARY_CLOUD_NAME ELSE Str(<<"d","e","m","o">>)
  ELSE IF processEnv.present /\ Truthy(processEnv.PUBLIC_CLOUDINARY_CLOUD_NAME)
       THEN processEnv.PUBLIC_CLOUDINARY_CLOUD_NAME ELSE Str(<<"d","e","m","o">>)

-----------------------------------------------------------------------------
(* validatePublicId *)

\* the characters identifiers are drawn from, with their character codes
IdAlphabet == {"a", "z", "A", "Z", "0", "9", "_", "-", "/", ".", " ", "[", "{"}

CharCode(c) ==
  CASE c = "a" -> 97 [] c = "z" -> 122 [] c = "A" -> 65 [] c = "Z" -> 90
    [] c = "0" -> 48 [] c = "9" -> 57 [] c = "_" -> 95 [] c = "-" -> 45
    [] c = "/" -> 47 [] c = "." -> 46 [] c = " " -> 32 [] c = "[" -> 91
    [] c = "{" -> 123 [] c = "b" -> 98 [] c = "c" -> 99 [] c = "d" -> 100
    [] c = "e" -> 101 [] c = "h" -> 104 [] c = "o" -> 111 [] c = "r" -> 114
    [] c = "s" -> 115

\* (faulty variant) the class written [a-zA-z0-9_\-\/\.]
ValidIdCharWide(c) ==
  LET k == CharCode(c)
  IN  \/ 97 <= k /\ k <= 122
      \/ 65 <= k /\ k <= 122
      \/ 48 <= k /\ k <= 57
      \/ k \in {95, 45, 47, 46}

\* the character class [a-zA-Z0-9_\-\/\.]
ValidIdChar(c) ==
  LET k == CharCode(c)
  IN  \/ 97 <= k /\ k <= 122
      \/ 65 <= k /\ k <= 90
      \/ 48 <= k /\ k <= 57
      \/ k \in {95, 45, 47, 46}

\* validIdRegex.test(s): one or more characters of the class, from start to end
RegexTest(s) == Len(s) >= 1 /\ \A i \in 1..Len(s) : ValidIdChar(s[i])

validatePublicId(v) ==
  IF ~Truthy(v) \/ v.t # "str" THEN FALSE
  ELSE RegexTest(v.s) /\ Len(v.s) > 0

-----------------------------------------------------------------------------
(* buildCloudinaryUrl *)

\* One entry per push statement of buildCloudinaryUrl, in source order.
\* guard: "truthy" is `if (transforms.f)`, "defined" is `if (transforms.f !== undefined)`,
\* "elseif" is the else-branch of the fetchFormat test.  code is the literal the
\* statement writes; val tells whether the field's value follows it.
Statements ==
  << [field |-> "width",          guard |-> "truthy",  code |-> <<"w","_">>,              val |-> TRUE],
     [field |-> "height",         guard |-> "truthy",  code |-> <<"h","_">>,              val |-> TRUE],
     [field |-> "aspectRatio",    guard |-> "truthy",  code |-> <<"a","r","_">>,             val |-> TRUE],
     [field |-> "dpr",            guard |-> "truthy",  code |-> <<"d","p","r","_">>,            val |-> TRUE],
     [field |-> "crop",           guard |-> "truthy",  code |-> <<"c","_">>,              val |-> TRUE],
     [field |-> "gravity",        guard |-> "truthy",  code |-> <<"g","_">>,              val |-> TRUE],
     [field |-> "quality",        guard |-> "truthy",  code |-> <<"q","_">>,              val |-> TRUE],
     [field |-> "fetchFormat",    guard |-> "truthy",  code |-> <<"f","_">>,              val |-> TRUE],
     [field |-> "format",         guard |-> "elseif",  code |-> <<"f","_">>,              val |-> TRUE],
     [field |-> "brightness",     guard |-> "defined", code |-> <<"e","_","b","r","i","g","h","t","n","e","s","s",":">>,   val |-> TRUE],
     [field |-> "contrast",       guard |-> "defined", code |-> <<"e","_","c","o","n","t","r","a","s","t",":">>,     val |-> TRUE],
     [field |-> "saturation",     guard |-> "defined", code |-> <<"e","_","s","a","t","u","r","a","t","i","o","n",":">>,   val |-> TRUE],
     [field |-> "gamma",          guard |-> "defined", code |-> <<"e","_","g","a","m","m","a",":">>,        val |-> TRUE],
     [field |-> "vibrance",       guard |-> "defined", code |-> <<"e","_","v","i","b","r","a","n","c","e",":">>,     val |-> TRUE],
     [field |-> "hue",            guard |-> "defined", code |-> <<"e","_","h","u","e",":">>,          val |-> TRUE],
     [field |-> "opacity",        guard |-> "defined", code |-> <<"o","_">>,              val |-> TRUE],
     [field |-> "blur",           guard |-> "truthy",  code |-> <<"e","_","b","l","u","r",":">>,         val |-> TRUE],
     [field |-> "sharpen",        guard |-> "truthy",  code |-> <<"e","_","s","h","a","r","p","e","n",":">>,      val |-> TRUE],
     [field |-> "unsharpMask",    guard |-> "truthy",  code |-> <<"e","_","u","n","s","h","a","r","p","_","m","a","s","k",":">>, val |-> TRUE],
     [field |-> "sepia",          guard |-> "truthy",  code |-> <<"e","_","s","e","p","i","a",":">>,        val |-> TRUE],
     [field |-> "grayscale",      guard |-> "truthy",  code |-> <<"e","_","g","r","a","y","s","c","a","l","e">>,     val |-> FALSE],
     [field |-> "blackwhite",     guard |-> "truthy",  code |-> <<"e","_","b","l","a","c","k","w","h","i","t","e",":">>,   val |-> TRUE],
     [field |-> "negate",         guard |-> "truthy",  code |-> <<"e","_","n","e","g","a","t","e">>,        val |-> FALSE],
     [field |-> "oilPaint",       guard |-> "truthy",  code |-> <<"e","_","o","i","l","_","p","a","i","n","t",":">>,    val |-> TRUE],
     [field |-> "vignette",       guard |-> "truthy",  code |-> <<"e","_","v","i","g","n","e","t","t","e",":">>,     val |-> TRUE],
     [field |-> "pixelate",       guard |-> "truthy",  code |-> <<"e","_","p","i","x","e","l","a","t","e",":">>,     val |-> TRUE],
     [field |-> "border",         guard |-> "truthy",  code |-> <<"b","o","_">>,             val |-> TRUE],
     [field |-> "background",     guard |-> "truthy",  code |-> <<"b","_">>,              val |-> TRUE],
     [field |-> "angle",          guard |-> "truthy",  code |-> <<"a","_">>,              val |-> TRUE],
     [field |-> "progressive",    guard |-> "truthy",  code |-> <<"f","l","_","p","r","o","g","r","e","s","s","i","v","e">>,     val |-> FALSE],
     [field |-> "immutableCache", guard |-> "truthy",  code |-> <<"f","l","_","i","m","m","u","t","a","b","l","e","_","c","a","c","h","e">>, val |-> FALSE],
     [field |-> "stripProfile",   guard |-> "truthy",  code |-> <<"f","l","_","s","t","r","i","p","_","p","r","o","f","i","l","e">>,   val |-> FALSE],
     [field |-> "customTransform", guard |-> "truthy", code |-> <<>>,                val |-> TRUE] >>

StatementOf(f) == Statements[CHOOSE i \in 1..Len(Statements) : Statements[i].field = f]

\* (faulty variant) the quality statement moved before the crop statement
QualityBeforeCrop(tr) ==
  [i \in 1..Len(Statements) |->
     IF Statements[i].field = "crop" THEN StatementOf("quality")
     ELSE IF Statements[i].field = "quality" THEN StatementOf("crop")
     ELSE Statements[i]]

\* (faulty variant) a loop over the entries of the record instead of the written sequence
InsertionOrder(tr) == [i \in 1..Len(tr) |-> StatementOf(tr[i][1])]

\* (faulty variant) the raw string pushed before the structured fields
CustomFirst(tr) ==
  <<StatementOf("customTransform")>> \o SubSeq(Statements, 1, Len(Statements) - 1)

\* the order in which the statements run: the order they are written in
StatementOrder(tr) == Statements

\* (faulty variant) numbers are tested with `> 0`
PassesPositive(tr, st) ==
  LET v == Get(tr, st.field)
  IN  CASE st.guard = "truthy" -> IF v.t = "num" THEN v.m > 0 ELSE Truthy(v)
        [] st.guard = "defined" -> v.t # "undefined"
        [] st.guard = "elseif" -> ~Truthy(Get(tr, "fetchFormat")) /\ Truthy(v)

\* (faulty variant) the format test is an `if` of its own, not the else-branch
PassesNoElse(tr, st) ==
  CASE st.guard = "truthy" -> Truthy(Get(tr, st.field))
    [] st.guard = "defined" -> Get(tr, st.field).t # "undefined"
    [] st.guard = "elseif" -> Truthy(Get(tr, st.field))

\* (faulty variant) format is preferred to fetchFormat
PassesFormatFirst(tr, st) ==
  CASE st.field = "fetchFormat" -> ~Truthy(Get(tr, "format")) /\ Truthy(Get(tr, st.field))
    [] st.guard = "truthy" /\ st.field # "fetchFormat" -> Truthy(Get(tr, st.field))
    [] st.guard = "defined" -> Get(tr, st.field).t # "undefined"
    [] st.guard = "elseif" -> Truthy(Get(tr, st.field))

\* (faulty variant) every statement tests its field with `if (transforms.f)`
PassesTruthyOnly(tr, st) ==
  CASE st.guard = "truthy" -> Truthy(Get(tr, st.field))
    [] st.guard = "defined" -> Truthy(Get(tr, st.field))
    [] st.guard = "elseif" -> ~Truthy(Get(tr, "fetchFormat")) /\ Truthy(Get(tr, st.field))

\* the condition of a push statement
Passes(tr, st) ==
  CASE st.guard = "truthy" -> Truthy(Get(tr, st.field))
    [] st.guard = "defined" -> Get(tr, st.field).t # "undefined"
    [] st.guard = "elseif" -> ~Truthy(Get(tr, "fetchFormat")) /\ Truthy(Get(tr, st.field))

\* the string a push statement appends
Token(tr, st) == st.code \o (IF st.val THEN ToStr(Get(tr, st.field)) ELSE <<>>)

\* (faulty variant) the array is shared between calls
StaleTransformParts == transformParts

\* const transformParts: string[] = []
NewTransformParts == <<>>

\* the statements from position i on, run on the array `parts`; each element keeps,
\* beside its text, the field whose statement pushed it
RECURSIVE PushAll(_, _, _, _)
PushAll(tr, order, i, parts) ==
  IF i > Len(order) THEN parts
  ELSE PushAll(tr, order, i + 1,
               IF Passes(tr, order[i])
               THEN Append(parts, [by |-> order[i].field, text |-> Token(tr, order[i])])
               ELSE parts)

BuildParts(tr) == PushAll(tr, StatementOrder(tr), 1, NewTransformParts)

\* Array.prototype.join
RECURSIVE Join(_, _)
Join(parts, sep) ==
  IF parts = <<>> THEN <<>>
  ELSE IF Len(parts) = 1 THEN parts[1].text
  ELSE parts[1].text \o sep \o Join(Tail(parts), sep)

\* (faulty variant) the separating slash written unconditionally
TransformStringAlwaysSlash(parts) == Join(parts, <<",">>) \o <<"/">>

\* (faulty variant) the parts joined as chained transformations
TransformStringSlashJoined(parts) ==
  IF Len(parts) > 0 THEN Join(parts, <<"/">>) \o <<"/">> ELSE <<>>

\* transformParts.length > 0 ? transformParts.join(',') + '/' : ''
TransformString(parts) ==
  IF Len(parts) > 0 THEN Join(parts, <<",">>) \o <<"/">> ELSE <<>>

BaseUrl == <<"h","t","t","p","s",":","/","/","r","e","s",".","c","l","o","u","d","i","n","a","r","y",".","c","o","m","/">> \o ToStr(getCloudName) \o <<"/","i","m","a","g","e","/","u","p","l","o","a","d">>

\* (faulty variant) the builder rejects an identifier that validatePublicId rejects
buildCloudinaryUrlValidated(pid, tr) ==
  IF validatePublicId(Str(pid))
  THEN BaseUrl \o <<"/">> \o TransformString(BuildParts(tr)) \o pid
  ELSE <<>>

buildCloudinaryUrl(pid, tr) == BaseUrl \o <<"/">> \o TransformString(BuildParts(tr)) \o pid

-----------------------------------------------------------------------------
(* Inputs *)

FieldValues(f) ==
  CASE f = "width" -> {Num(600), Num(0), NaN}
    [] f = "height" -> {Num(200), Num(-5), Num(0)}
    [] f = "aspectRatio" -> {Str(<<"1","6",":","9">>), Str(<<"4","/","3">>)}
    [] f = "crop" -> {Str(<<"f","i","l","l">>), Undefined}
    [] f = "gravity" -> {Str(<<"f","a","c","e">>)}
    [] f = "quality" -> {Str(<<"a","u","t","o",":","g","o","o","d">>), Num(80), Num(0)}
    [] f = "format" -> {Str(<<"w","e","b","p">>)}
    [] f = "fetchFormat" -> {Str(<<"a","u","t","o">>), Str(<<>>)}
    [] f = "dpr" -> {Dec(1, 5), Str(<<"a","u","t","o">>), Num(0)}
    [] f = "brightness" -> {Num(0), Num(150), Undefined}
    [] f = "contrast" -> {Num(-20), Num(0)}
    [] f = "saturation" -> {Num(0)}
    [] f = "gamma" -> {Num(50), Num(0)}
    [] f = "vibrance" -> {Num(-101), Num(0)}
    [] f = "hue" -> {Num(0), Num(200)}
    [] f = "opacity" -> {Num(0), Num(101)}
    [] f = "blur" -> {Num(400), Num(0)}
    [] f = "sharpen" -> {Num(401), Num(0)}
    [] f = "unsharpMask" -> {Str(<<"8","0",":","0",".","5",":","2",":","0">>)}
    [] f = "sepia" -> {Num(50), Num(0)}
    [] f = "grayscale" -> {Bool(TRUE), Bool(FALSE)}
    [] f = "blackwhite" -> {Str(<<"4","0">>)}
    [] f = "negate" -> {Bool(TRUE), Bool(FALSE)}
    [] f = "oilPaint" -> {Num(30), Num(0)}
    [] f = "vignette" -> {Num(30), Num(0), Str(<<"3","0",":","5",":","5">>)}
    [] f = "pixelate" -> {Num(201), Num(0)}
    [] f = "border" -> {Str(<<"5","_","b","l","a","c","k">>)}
    [] f = "background" -> {Str(<<"g","r","a","y">>)}
    [] f = "angle" -> {Num(-90), Num(0)}
    [] f = "progressive" -> {Bool(TRUE), Bool(FALSE)}
    [] f = "immutableCache" -> {Bool(TRUE), Bool(FALSE)}
    [] f = "stripProfile" -> {Bool(TRUE), Bool(FALSE)}
    [] f = "customTransform" -> {Str(<<"e","_","a","r","t",":","z","o","r","r","o">>), Str(<<"e","_","a","/","e","_","b">>), Str(<<>>)}

\* every <<field, value>> pair an options record may hold
FieldValuePairs ==
  UNION { { <<i, v>> : v \in FieldValues(FieldNames[i]) } : i \in 1..Len(FieldNames) }

\* the records of exactly n fields, written in declaration order
RecordsOfSize(n) ==
  { [i \in 1..n |-> <<FieldNames[pick[i][1]], pick[i][2]>>] :
      pick \in { p \in [1..n -> FieldValuePairs] :
                   \A i \in 1..n : i > 1 => p[i - 1][1] < p[i][1] } }

\* the options of getPlaceholderUrl
PlaceholderOptions ==
  << <<"width", Num(50)>>, <<"quality", Str(<<"a","u","t","o",":","l","o","w">>)>>, <<"blur", Num(400)>>,
     <<"fetchFormat", Str(<<"a","u","t","o">>)>> >>

\* the options of getFallbackImageUrl, called without arguments
FallbackOptions ==
  << <<"width", Num(400)>>, <<"height", Num(300)>>, <<"crop", Str(<<"f","i","l","l">>)>>,
     <<"quality", Str(<<"a","u","t","o",":","l","o","w">>)>>, <<"background", Str(<<"g","r","a","y">>)>> >>

\* { width: 300, height: 200, crop: "fill", quality: "auto:good" }
ShoesOptions ==
  << <<"width", Num(300)>>, <<"height", Num(200)>>, <<"crop", Str(<<"f","i","l","l">>)>>,
     <<"quality", Str(<<"a","u","t","o",":","g","o","o","d">>)>> >>

ExampleRecords == { PlaceholderOptions, FallbackOptions, ShoesOptions }

\* the written-out records and every record of at most n fields
OptionRecords(n) == ExampleRecords \cup UNION { RecordsOfSize(k) : k \in 0..n }

PublicIds == { <<>>, <<"s","h","o","e","s","/","r","e","d">>, <<"a"," ","b">> }

CloudNames == { Str(<<"p","t","p">>), Str(<<>>), Undefined }

-----------------------------------------------------------------------------
(* The helpers built on buildCloudinaryUrl *)

\* Object.values(RESPONSIVE_BREAKPOINTS)
RESPONSIVE_BREAKPOINTS == << Num(400), Num(800), Num(1200), Num(1600) >>

\* { ...tr, f: v }: an existing key keeps its place and takes the new value
SetField(tr, f, v) ==
  IF HasField(tr, f)
  THEN [i \in 1..Len(tr) |-> IF tr[i][1] = f THEN <<f, v>> ELSE tr[i]]
  ELSE Append(tr, <<f, v>>)

\* { ...tr, ...over }
RECURSIVE Spread(_, _)
Spread(tr, over) ==
  IF over = <<>> THEN tr
  ELSE Spread(SetField(tr, over[1][1], over[1][2]), Tail(over))

\* a || b
Or(a, b) == IF Truthy(a) THEN a ELSE b

\* a parameter with a default value
Default(a, d) == IF a = Undefined THEN d ELSE a

\* width * dpr, exact for the breakpoints and ratios used
Times(a, b) == [t |-> "num", m |-> (a.m * b.m) \div 10]

\* srcsetEntries.join(', ')
RECURSIVE JoinEntries(_)
JoinEntries(entries) ==
  IF entries = <<>> THEN <<>>
  ELSE IF Len(entries) = 1 THEN entries[1].text
  ELSE entries[1].text \o <<","," ">> \o JoinEntries(Tail(entries))

Sizes ==
  <<"(","m","a","x","-","w","i","d","t","h",":"," ","6","4","0","p","x",")"," ","4","0","0","p","x",","," ","(","m","a","x","-","w","i","d","t","h",":"," ","1","0","2","4","p","x",")"," ","8","0","0","p","x",","," ","(","m","a","x","-","w","i","d","t","h",":"," ","1","4","4","0","p","x",")"," ","1","2","0","0","p","x",","," ","1","6","0","0","p","x">>

\* (faulty variant) a sharp placeholder of ten times the width
getPlaceholderUrlSharp(pid) ==
  buildCloudinaryUrl(pid, << <<"width", Num(500)>>, <<"quality", Str(<<"a","u","t","o",":","l","o","w">>)>>,
                             <<"fetchFormat", Str(<<"a","u","t","o">>)>> >>)

getPlaceholderUrl(pid) == buildCloudinaryUrl(pid, PlaceholderOptions)

\* (faulty variant) the base options spread last, so that they win
ResponsiveOptionsBaseLast(base, w) ==
  Spread(<< <<"width", w>>,
            <<"crop", Or(Get(base, "crop"), Str(<<"f","i","l","l">>))>>,
            <<"quality", Or(Get(base, "quality"), Str(<<"a","u","t","o">>))>>,
            <<"format", Str(<<"w","e","b","p">>)>> >>, base)

\* the options getCloudinaryResponsiveSet passes to the builder for one breakpoint
ResponsiveOptions(base, w) ==
  Spread(base, << <<"width", w>>,
                  <<"crop", Or(Get(base, "crop"), Str(<<"f","i","l","l">>))>>,
                  <<"quality", Or(Get(base, "quality"), Str(<<"a","u","t","o">>))>>,
                  <<"format", Str(<<"w","e","b","p">>)>> >>)

\* the entries of getCloudinaryResponsiveSet: breakpoints.map(...)
ResponsiveEntries(pid, base) ==
  [i \in 1..Len(RESPONSIVE_BREAKPOINTS) |->
     LET w == RESPONSIVE_BREAKPOINTS[i]
     IN  [width |-> w, dpr |-> Undefined,
          text |-> buildCloudinaryUrl(pid, ResponsiveOptions(base, w))
                     \o <<" ">> \o ToStr(w) \o <<"w">>]]

\* (faulty variant) without the 1.5 ratio
DprValuesWhole(support) == IF support THEN << Num(1), Num(2) >> ELSE << Num(1) >>

DprValues(support) == IF support THEN << Num(1), Dec(1, 5), Num(2) >> ELSE << Num(1) >>

\* the options getCloudinaryDprSrcset passes to the builder for one pair
DprOptions(base, w, dpr) ==
  Spread(base, << <<"width", w>>,
                  <<"dpr", dpr>>,
                  <<"crop", Or(Get(base, "crop"), Str(<<"f","i","l","l">>))>>,
                  <<"quality", Or(Get(base, "quality"), Str(<<"a","u","t","o">>))>>,
                  <<"fetchFormat", Str(<<"a","u","t","o">>)>> >>)

\* (faulty variant) the breakpoint width as descriptor at every ratio
DescriptorOfTier(w, dpr) == ToStr(w) \o <<"w">>

Descriptor(w, dpr) ==
  IF dpr = Num(1) THEN ToStr(w) \o <<"w">> ELSE ToStr(Times(w, dpr)) \o <<"w">>

\* the entries of getCloudinaryDprSrcset: for each breakpoint, for each ratio
DprEntries(pid, base, support) ==
  LET dprValues == DprValues(support)
      n == Len(dprValues)
  IN  [k \in 1..(Len(RESPONSIVE_BREAKPOINTS) * n) |->
         LET w == RESPONSIVE_BREAKPOINTS[((k - 1) \div n) + 1]
             dpr == dprValues[((k - 1) % n) + 1]
         IN  [width |-> w, dpr |-> dpr,
              text |-> buildCloudinaryUrl(pid, DprOptions(base, w, dpr))
                         \o <<" ">> \o Descriptor(w, dpr)]]

\* (faulty variant) the fallback without its background
getFallbackImageUrlPlain(w, h) ==
  buildCloudinaryUrl(<<"s","a","m","p","l","e">>,
    << <<"width", Default(w, Num(400))>>, <<"height", Default(h, Num(300))>>,
       <<"crop", Str(<<"f","i","l","l">>)>>, <<"quality", Str(<<"a","u","t","o",":","l","o","w">>)>> >>)

getFallbackImageUrl(w, h) ==
  buildCloudinaryUrl(<<"s","a","m","p","l","e">>,
    << <<"width", Default(w, Num(400))>>, <<"height", Default(h, Num(300))>>,
       <<"crop", Str(<<"f","i","l","l">>)>>, <<"quality", Str(<<"a","u","t","o",":","l","o","w">>)>>,
       <<"background", Str(<<"g","r","a","y">>)>> >>)

\* the record getOptimizedImageUrl hands to the builder
OptimizedTransforms(opts) ==
  LET smart == << <<"width", Get(opts, "width")>>,
                  <<"height", Get(opts, "height")>>,
                  <<"quality", Or(Get(opts, "quality"), Str(<<"a","u","t","o">>))>>,
                  <<"crop", Or(Get(opts, "crop"), Str(<<"f","i","l","l">>))>> >>
  IN  IF Get(opts, "format") # Bool(FALSE)
      THEN Append(smart, <<"fetchFormat", Str(<<"a","u","t","o">>)>>)
      ELSE smart

\* (faulty variant) the automatic format only on request
getOptimizedImageUrlOnRequest(pid, opts) ==
  buildCloudinaryUrl(pid,
    IF Truthy(Get(opts, "format"))
    THEN OptimizedTransforms(opts)
    ELSE SubSeq(OptimizedTransforms(SetField(opts, "format", Bool(FALSE))), 1, 4))

getOptimizedImageUrl(pid, opts) == buildCloudinaryUrl(pid, OptimizedTransforms(opts))

-----------------------------------------------------------------------------
(* The builder applied to one input *)

\* no helper has been called
HelperIdle ==
  /\ fn = ""
  /\ baseTransforms = <<>>
  /\ supportDpr = Undefined
  /\ width = Undefined
  /\ height = Undefined
  /\ srcsetEntries = <<>>
  /\ srcset = <<>>
  /\ sizes = <<>>

\* no alternate module has been called
VariantIdle ==
  /\ variant = ""
  /\ options = <<>>
  /\ urls = Undefined

\* the sitemap has not been requested
SitemapIdle ==
  /\ currentDate = <<>>
  /\ response = Undefined

\* no Shopify operation has been called, nothing is configured
ShopIdle ==
  /\ STORE_DOMAIN = Undefined
  /\ STOREFRONT_ACCESS_TOKEN = Undefined
  /\ ADMIN_ACCESS_TOKEN = Undefined
  /\ PRODUCT_ID = Undefined
  /\ op = ""
  /\ requests = <<>>
  /\ returned = "nothing"
  /\ threw = FALSE
  /\ tags = <<>>
  /\ customerTags = Undefined

\* every options record with the identifier "shoes/red", and every identifier
\* with the written-out records and the records of at most one field
Init ==
  /\ \/ transforms \in OptionRecords(MaxFields) /\ publicId = <<"s","h","o","e","s","/","r","e","d">>
     \/ transforms \in OptionRecords(1) /\ publicId \in PublicIds
  /\ metaEnv = Env(Str(<<"p","t","p">>))
  /\ processEnv = AbsentEnv
  /\ transformParts = <<>>
  /\ url = <<>>
  /\ pc = "ready"
  /\ calls = <<>>
  /\ candidate = Undefined
  /\ valid = FALSE
  /\ vpc = "ready"
  /\ HelperIdle
  /\ ShopIdle
  /\ SitemapIdle
  /\ VariantIdle

BuildUrl ==
  /\ pc = "ready"
  /\ transformParts' = BuildParts(transforms)
  /\ url' = buildCloudinaryUrl(publicId, transforms)
  /\ pc' = "built"
  /\ UNCHANGED <<helperVars, shopVars, sitemapVars, variantVars, metaEnv, processEnv, publicId, transforms, calls, candidate, valid, vpc>>

Next == BuildUrl

Spec == Init /\ [][Next]_vars

-----------------------------------------------------------------------------
(* The builder under every configuration of the two environments *)

\* the values process.env may hold for the name
ServerNames == { Str(<<"s","r","v">>), Str(<<>>), Undefined }

InitEnv ==
  /\ metaEnv \in {AbsentEnv} \cup { Env(v) : v \in CloudNames }
  /\ processEnv \in {AbsentEnv} \cup { Env(v) : v \in ServerNames }
  /\ publicId \in PublicIds
  /\ transforms \in ExampleRecords \cup {<<>>}
  /\ transformParts = <<>>
  /\ url = <<>>
  /\ pc = "ready"
  /\ calls = <<>>
  /\ candidate = Undefined
  /\ valid = FALSE
  /\ vpc = "ready"
  /\ HelperIdle
  /\ ShopIdle
  /\ SitemapIdle
  /\ VariantIdle

SpecEnv == InitEnv /\ [][Next]_vars

-----------------------------------------------------------------------------
(* A process making several calls, the environment changing in between *)

CallArgs == { <<>>, ShoesOptions }

CallIds == { <<>>, <<"s","h","o","e","s","/","r","e","d">> }

InitCalls ==
  /\ metaEnv \in { Env(v) : v \in CloudNames }
  /\ processEnv = AbsentEnv
  /\ publicId = <<>>
  /\ transforms = <<>>
  /\ transformParts = <<>>
  /\ url = <<>>
  /\ pc = "ready"
  /\ calls = <<>>
  /\ candidate = Undefined
  /\ valid = FALSE
  /\ vpc = "ready"
  /\ HelperIdle
  /\ ShopIdle
  /\ SitemapIdle
  /\ VariantIdle

\* one call of buildCloudinaryUrl
CallBuild ==
  /\ Len(calls) < MaxCalls
  /\ \E pid \in CallIds, tr \in CallArgs :
       /\ publicId' = pid
       /\ transforms' = tr
       /\ transformParts' = BuildParts(tr)
       /\ url' = buildCloudinaryUrl(pid, tr)
       /\ calls' = Append(calls, [metaEnv |-> metaEnv, processEnv |-> processEnv,
                                  publicId |-> pid, transforms |-> tr,
                                  url |-> buildCloudinaryUrl(pid, tr)])
  /\ pc' = "built"
  /\ UNCHANGED <<helperVars, shopVars, sitemapVars, variantVars, metaEnv, processEnv, candidate, valid, vpc>>

\* the configuration value is changed between two calls
SetEnv ==
  /\ Len(calls) < MaxCalls
  /\ \E v \in CloudNames : metaEnv' = Env(v) /\ metaEnv' # metaEnv
  /\ UNCHANGED <<helperVars, shopVars, sitemapVars, variantVars, processEnv, publicId, transforms, transformParts, url, pc, calls,
                 candidate, valid, vpc>>

NextCalls == CallBuild \/ SetEnv

SpecCalls == InitCalls /\ [][NextCalls]_vars

-----------------------------------------------------------------------------
(* The helpers applied to one input *)

\* the base options that meet what the srcset helpers set themselves
BaseValues(f) ==
  CASE f = "width" -> {Num(600), Num(0)}
    [] f = "crop" -> {Str(<<"s","c","a","l","e">>), Str(<<>>)}
    [] f = "gravity" -> {Str(<<"f","a","c","e">>)}
    [] f = "quality" -> {Num(80), Num(0), Str(<<"a","u","t","o",":","g","o","o","d">>)}
    [] f = "format" -> {Str(<<"p","n","g">>)}
    [] f = "fetchFormat" -> {Str(<<"a","v","i","f">>)}
    [] f = "dpr" -> {Num(3), Str(<<"a","u","t","o">>)}
    [] f = "customTransform" -> {Str(<<"e","_","a","r","t",":","z","o","r","r","o">>)}
    [] OTHER -> {}

BasePairs ==
  UNION { { <<i, v>> : v \in BaseValues(FieldNames[i]) } : i \in 1..Len(FieldNames) }

\* the base records of exactly n fields, written in declaration order
BaseRecordsOfSize(n) ==
  { [i \in 1..n |-> <<FieldNames[pick[i][1]], pick[i][2]>>] :
      pick \in { p \in [1..n -> BasePairs] :
                   \A i \in 1..n : i > 1 => p[i - 1][1] < p[i][1] } }

BaseRecords(n) == UNION { BaseRecordsOfSize(k) : k \in 0..n }

\* what a caller may pass for supportDpr
SupportDprArgs == { Undefined, Bool(TRUE), Bool(FALSE) }

\* what a caller may pass for width and height of the fallback
FallbackArgs == { Undefined, Num(640), Num(0) }

InitHelpers ==
  /\ metaEnv = Env(Str(<<"p","t","p">>))
  /\ processEnv = AbsentEnv
  /\ publicId \in PublicIds
  /\ transforms = <<>>
  /\ transformParts = <<>>
  /\ url = <<>>
  /\ pc = "ready"
  /\ calls = <<>>
  /\ candidate = Undefined
  /\ valid = FALSE
  /\ vpc = "ready"
  /\ fn = ""
  /\ baseTransforms \in BaseRecords(MaxBaseFields)
  /\ supportDpr = Undefined
  /\ width = Undefined
  /\ height = Undefined
  /\ srcsetEntries = <<>>
  /\ srcset = <<>>
  /\ sizes = <<>>
  /\ ShopIdle
  /\ SitemapIdle
  /\ VariantIdle

Placeholder ==
  /\ fn = ""
  /\ fn' = "getPlaceholderUrl"
  /\ url' = getPlaceholderUrl(publicId)
  /\ UNCHANGED <<shopVars, sitemapVars, variantVars, metaEnv, processEnv, publicId, transforms, transformParts, pc, calls,
                 candidate, valid, vpc, baseTransforms, supportDpr, width, height,
                 srcsetEntries, srcset, sizes>>

ResponsiveSet ==
  /\ fn = ""
  /\ fn' = "getCloudinaryResponsiveSet"
  /\ srcsetEntries' = ResponsiveEntries(publicId, baseTransforms)
  /\ srcset' = JoinEntries(ResponsiveEntries(publicId, baseTransforms))
  /\ sizes' = Sizes
  /\ UNCHANGED <<shopVars, sitemapVars, variantVars, metaEnv, processEnv, publicId, transforms, transformParts, url, pc,
                 calls, candidate, valid, vpc, baseTransforms, supportDpr, width, height>>

DprSrcset ==
  /\ fn = ""
  /\ fn' = "getCloudinaryDprSrcset"
  /\ \E arg \in SupportDprArgs :
       LET support == Truthy(Default(arg, Bool(TRUE)))
       IN  /\ supportDpr' = arg
           /\ srcsetEntries' = DprEntries(publicId, baseTransforms, support)
           /\ srcset' = JoinEntries(DprEntries(publicId, baseTransforms, support))
  /\ sizes' = Sizes
  /\ UNCHANGED <<shopVars, sitemapVars, variantVars, metaEnv, processEnv, publicId, transforms, transformParts, url, pc,
                 calls, candidate, valid, vpc, baseTransforms, width, height>>

Fallback ==
  /\ fn = ""
  /\ fn' = "getFallbackImageUrl"
  /\ \E w \in FallbackArgs, h \in FallbackArgs :
       /\ width' = w
       /\ height' = h
       /\ url' = getFallbackImageUrl(w, h)
  /\ UNCHANGED <<shopVars, sitemapVars, variantVars, metaEnv, processEnv, publicId, transforms, transformParts, pc, calls,
                 candidate, valid, vpc, baseTransforms, supportDpr, srcsetEntries,
                 srcset, sizes>>

\* the values a caller may give the options of getOptimizedImageUrl
OptimizedValues(f) ==
  CASE f = "width" -> {Num(600), Num(0)}
    [] f = "height" -> {Num(300)}
    [] f = "crop" -> {Str(<<"s","c","a","l","e">>)}
    [] f = "quality" -> {Num(80), Num(0), Str(<<"a","u","t","o",":","g","o","o","d">>)}
    [] f = "format" -> {Bool(TRUE), Bool(FALSE), Undefined}
    [] OTHER -> {}

OptimizedPairs ==
  UNION { { <<i, v>> : v \in OptimizedValues(FieldNames[i]) } : i \in 1..Len(FieldNames) }

\* the options records of exactly n fields, written in declaration order
OptimizedRecordsOfSize(n) ==
  { [i \in 1..n |-> <<FieldNames[pick[i][1]], pick[i][2]>>] :
      pick \in { p \in [1..n -> OptimizedPairs] :
                   \A i \in 1..n : i > 1 => p[i - 1][1] < p[i][1] } }

OptimizedRecords == UNION { OptimizedRecordsOfSize(k) : k \in 0..MaxBaseFields }

OptimizedImageUrl ==
  /\ fn = ""
  /\ fn' = "getOptimizedImageUrl"
  /\ \E opts \in OptimizedRecords :
       /\ options' = opts
       /\ transforms' = OptimizedTransforms(opts)
       /\ url' = getOptimizedImageUrl(publicId, opts)
  /\ UNCHANGED <<shopVars, sitemapVars, variant, urls, metaEnv, processEnv, publicId, transformParts, pc, calls,
                 candidate, valid, vpc, baseTransforms, supportDpr, width, height,
                 srcsetEntries, srcset, sizes>>

NextHelpers == Placeholder \/ ResponsiveSet \/ DprSrcset \/ Fallback \/ OptimizedImageUrl

SpecHelpers == InitHelpers /\ [][NextHelpers]_vars

-----------------------------------------------------------------------------
(* The Shopify operations *)

\* how the Storefront client's request may end: a response with the object
\* asked for, a response without it, a failure reported in the response, or a
\* failure thrown
StorefrontOutcomes == { "found", "missing", "failedResponse", "failedThrow" }

\* how fetch may end for the Admin API: a success status with the object asked
\* for in the payload, a success status without it, another status, or a
\* rejected promise
AdminOutcomes == { "ok", "okWithout", "httpError", "networkError" }

\* the client exists only when the domain and the token are both set
shopifyClient == Truthy(STORE_DOMAIN) /\ Truthy(STOREFRONT_ACCESS_TOKEN)

Return(value, sent) == [returned |-> value, threw |-> FALSE, sent |-> sent]

Throw(sent) == [returned |-> "nothing", threw |-> TRUE, sent |-> sent]

\* shopifyClient.request(query, ...)
StorefrontRequest(query, o) ==
  [ threw |-> o = "failedThrow",
    data |-> o = "found",
    sent |-> << [api |-> "storefront", host |-> ToStr(STORE_DOMAIN), what |-> query,
                 method |-> "POST", body |-> Undefined, outcome |-> o] >> ]

\* an operation of one Storefront request: null without a client, the object
\* when the response holds it, null otherwise and when the request throws
StorefrontCall(query, o) ==
  IF ~shopifyClient THEN Return("null", <<>>)
  ELSE LET r == StorefrontRequest(query, o)
       IN  IF r.threw THEN Return("null", r.sent)
           ELSE IF r.data THEN Return("value", r.sent)
           ELSE Return("null", r.sent)

getProductById(o) == StorefrontCall("PRODUCT_BY_ID_QUERY", o)

\* (faulty variant) the by-ID request is made also after the by-handle request threw
getProductAlwaysFallingBack(o1, o2) ==
  IF ~shopifyClient THEN Return("null", <<>>)
  ELSE LET r == StorefrontRequest("PRODUCT_BY_HANDLE_QUERY", o1)
       IN  IF r.data THEN Return("value", r.sent)
           ELSE IF Truthy(PRODUCT_ID)
                THEN LET byId == getProductById(o2)
                     IN  [byId EXCEPT !.sent = r.sent \o byId.sent]
                ELSE Return("null", r.sent)

getProduct(o1, o2) ==
  IF ~shopifyClient THEN Return("null", <<>>)
  ELSE LET r == StorefrontRequest("PRODUCT_BY_HANDLE_QUERY", o1)
       IN  IF r.threw THEN Return("null", r.sent)
           ELSE IF r.data THEN Return("value", r.sent)
           ELSE IF Truthy(PRODUCT_ID)
                THEN LET byId == getProductById(o2)
                     IN  [byId EXCEPT !.sent = r.sent \o byId.sent]
                ELSE Return("null", r.sent)

createCart(o) == StorefrontCall("CREATE_CART_MUTATION", o)

addToCart(o) == StorefrontCall("ADD_TO_CART_MUTATION", o)

\* the checkout URL of the cart createCart returned, null without a cart
buyNow(o) == createCart(o)

\* (faulty variant) a failed fetch is attempted a second time
makeAdminRequestRetrying(endpoint, method, body, o) ==
  LET request == [api |-> "admin", host |-> ToStr(STORE_DOMAIN), what |-> endpoint,
                  method |-> method, body |-> body, outcome |-> o]
  IN  IF ~Truthy(ADMIN_ACCESS_TOKEN) THEN [threw |-> TRUE, sent |-> <<>>]
      ELSE IF o \in {"ok", "okWithout"} THEN [threw |-> FALSE, sent |-> <<request>>]
      ELSE [threw |-> TRUE, sent |-> <<request, request>>]

\* throws before fetch when the token is missing, after it when fetch rejects
\* or the status is not a success; body is the request body, undefined when
\* the request has none or none that matters here
makeAdminRequest(endpoint, method, body, o) ==
  IF ~Truthy(ADMIN_ACCESS_TOKEN) THEN [threw |-> TRUE, sent |-> <<>>]
  ELSE [ threw |-> o \notin {"ok", "okWithout"},
         sent |-> << [api |-> "admin", host |-> ToStr(STORE_DOMAIN), what |-> endpoint,
                      method |-> method, body |-> body, outcome |-> o] >> ]

\* try { return (await makeAdminRequest(...)).x } catch { return onError }:
\* x is undefined when the payload does not hold it
AdminRead(endpoint, o, onError) ==
  LET r == makeAdminRequest(endpoint, "GET", Undefined, o)
  IN  IF r.threw THEN Return(onError, r.sent)
      ELSE IF o = "okWithout" THEN Return("undefined", r.sent)
      ELSE Return("value", r.sent)

getShopInfo(o) == AdminRead("/shop.json", o, "null")

getRecentOrders(o) == AdminRead("/orders.json", o, "empty")

getOrderById(o) == AdminRead("/orders/{id}.json", o, "null")

getCustomerById(o) == AdminRead("/customers/{id}.json", o, "null")

searchCustomers(o) == AdminRead("/customers/search.json", o, "empty")

\* the catch block logs and throws the error again
fulfillOrder(o) ==
  LET r == makeAdminRequest("/orders/{id}/fulfillments.json", "POST", Undefined, o)
  IN  IF r.threw THEN Throw(r.sent) ELSE Return("value", r.sent)

\* String.prototype.split for a non-empty separator
RECURSIVE Split(_, _)
Split(str, sep) ==
  IF \E i \in 1..(Len(str) - Len(sep) + 1) : SubSeq(str, i, i + Len(sep) - 1) = sep
  THEN LET k == CHOOSE i \in 1..(Len(str) - Len(sep) + 1) :
                  /\ SubSeq(str, i, i + Len(sep) - 1) = sep
                  /\ \A j \in 1..(i - 1) : SubSeq(str, j, j + Len(sep) - 1) # sep
       IN  <<SubSeq(str, 1, k - 1)>> \o Split(SubSeq(str, k + Len(sep), Len(str)), sep)
  ELSE <<str>>

\* (faulty variant) the lists concatenated as they are
Concatenated(list) == list

\* [...new Set(list)]: the elements in the order of their first occurrence
RECURSIVE Unique(_)
Unique(list) ==
  IF list = <<>> THEN <<>>
  ELSE LET init == Unique(SubSeq(list, 1, Len(list) - 1))
           last == list[Len(list)]
       IN  IF \E i \in 1..Len(init) : init[i] = last THEN init ELSE Append(init, last)

\* list.join(sep) for a list of strings
RECURSIVE JoinStrings(_, _)
JoinStrings(list, sep) ==
  IF list = <<>> THEN <<>>
  ELSE IF Len(list) = 1 THEN list[1]
  ELSE list[1] \o sep \o JoinStrings(Tail(list), sep)

\* the tag string of the update: existing holds customer.tags, new the argument
NewTags(existing, new) ==
  LET existingTags == IF Truthy(existing) THEN Split(existing.s, <<","," ">>) ELSE <<>>
  IN  JoinStrings(Unique(existingTags \o new), <<","," ">>)

\* (faulty variant) the update is sent whatever the lookup returned
addCustomerTagsBlind(o1, o2, existing, new) ==
  LET customer == getCustomerById(o1)
      put == makeAdminRequest("/customers/{id}.json", "PUT", Str(NewTags(existing, new)), o2)
  IN  IF put.threw THEN Return("false", customer.sent \o put.sent)
      ELSE Return("true", customer.sent \o put.sent)

\* existing is customer.tags of the customer the lookup returns when it succeeds
addCustomerTags(o1, o2, existing, new) ==
  LET customer == getCustomerById(o1)
  IN  IF customer.returned \in {"null", "undefined"} THEN Return("false", customer.sent)
      ELSE LET put == makeAdminRequest("/customers/{id}.json", "PUT",
                                       Str(NewTags(existing, new)), o2)
           IN  IF put.threw THEN Return("false", customer.sent \o put.sent)
               ELSE Return("true", customer.sent \o put.sent)

\* the recent orders, filtered; filtering what is not an array throws, which
\* the catch block turns into []
getPourThePortOrders(o) ==
  LET orders == getRecentOrders(o)
  IN  IF orders.returned = "undefined" THEN Return("empty", orders.sent) ELSE orders

\* what the environment may hold for the domain, a token, the product id
DomainValues == { Undefined, Str(<<>>), Str(<<"p","t","p",".","e","x","a","m","p","l","e">>) }

TokenValues == { Undefined, Str(<<>>), Str(<<"t","o","k">>) }

ProductIdValues == { Undefined, Str(<<"g","i","d">>) }

\* the tags of the shop
TagNames == { <<"v","i","p">>, <<"b","2","b">>, <<"a">> }

\* the lists of at most MaxTags tags
TagLists == UNION { [1..k -> TagNames] : k \in 0..MaxTags }

\* customer.tags as the Admin API returns it: no tag twice, joined by ", ";
\* the field may also be missing
CustomerTagValues ==
  { Undefined } \cup
  { Str(JoinStrings(l, <<","," ">>)) :
      l \in { t \in TagLists : \A i, j \in 1..Len(t) : t[i] = t[j] => i = j } }

BuilderIdle ==
  /\ metaEnv = Env(Str(<<"p","t","p">>))
  /\ processEnv = AbsentEnv
  /\ publicId = <<>>
  /\ transforms = <<>>
  /\ transformParts = <<>>
  /\ url = <<>>
  /\ pc = "ready"
  /\ calls = <<>>
  /\ candidate = Undefined
  /\ valid = FALSE
  /\ vpc = "ready"

InitShop ==
  /\ BuilderIdle
  /\ HelperIdle
  /\ STORE_DOMAIN \in DomainValues
  /\ STOREFRONT_ACCESS_TOKEN \in TokenValues
  /\ ADMIN_ACCESS_TOKEN \in TokenValues
  /\ PRODUCT_ID \in ProductIdValues
  /\ op = ""
  /\ requests = <<>>
  /\ returned = "nothing"
  /\ threw = FALSE
  /\ tags = <<>>
  /\ customerTags = Undefined
  /\ SitemapIdle
  /\ VariantIdle

\* the operation name ran to its end r; t and c are the tags given and the
\* customer tags read, for addCustomerTags
FinishWith(name, r, t, c) ==
  /\ op = ""
  /\ op' = name
  /\ requests' = r.sent
  /\ returned' = r.returned
  /\ threw' = r.threw
  /\ tags' = t
  /\ customerTags' = c
  /\ UNCHANGED <<builderVars, helperVars, sitemapVars, variantVars, STORE_DOMAIN,
                 STOREFRONT_ACCESS_TOKEN, ADMIN_ACCESS_TOKEN, PRODUCT_ID>>

Finish(name, r) == FinishWith(name, r, tags, customerTags)

GetProduct == \E o1, o2 \in StorefrontOutcomes : Finish("getProduct", getProduct(o1, o2))

GetProductById == \E o \in StorefrontOutcomes : Finish("getProductById", getProductById(o))

CreateCart == \E o \in StorefrontOutcomes : Finish("createCart", createCart(o))

AddToCart == \E o \in StorefrontOutcomes : Finish("addToCart", addToCart(o))

BuyNow == \E o \in StorefrontOutcomes : Finish("buyNow", buyNow(o))

GetShopInfo == \E o \in AdminOutcomes : Finish("getShopInfo", getShopInfo(o))

GetRecentOrders == \E o \in AdminOutcomes : Finish("getRecentOrders", getRecentOrders(o))

GetOrderById == \E o \in AdminOutcomes : Finish("getOrderById", getOrderById(o))

GetCustomerById == \E o \in AdminOutcomes : Finish("getCustomerById", getCustomerById(o))

SearchCustomers == \E o \in AdminOutcomes : Finish("searchCustomers", searchCustomers(o))

FulfillOrder == \E o \in AdminOutcomes : Finish("fulfillOrder", fulfillOrder(o))

AddCustomerTags ==
  /\ op = ""
  /\ \E o1, o2 \in AdminOutcomes, new \in TagLists :
       \E existing \in IF getCustomerById(o1).returned = "value"
                        THEN CustomerTagValues ELSE { Undefined } :
         FinishWith("addCustomerTags", addCustomerTags(o1, o2, existing, new), new, existing)

GetPourThePortOrders ==
  \E o \in AdminOutcomes : Finish("getPourThePortOrders", getPourThePortOrders(o))

NextShop ==
  \/ GetProduct \/ GetProductById \/ CreateCart \/ AddToCart \/ BuyNow
  \/ GetShopInfo \/ GetRecentOrders \/ GetOrderById \/ GetCustomerById
  \/ SearchCustomers \/ FulfillOrder \/ AddCustomerTags \/ GetPourThePortOrders

SpecShop == InitShop /\ [][NextShop]_vars

-----------------------------------------------------------------------------
(* The sitemap handler *)

SITE_URL == <<"h","t","t","p","s",":","/","/","w","w","w",".","p","o","u","r","t","h","e","p","o","r","t",".","c","o","m">>

Page(u, p, c) == [url |-> u, priority |-> p, changefreq |-> c]

staticPages ==
  << Page(<<>>, Num(1), <<"w","e","e","k","l","y">>),
     Page(<<"/","p","r","o","d","u","c","t">>, Dec(0, 9), <<"m","o","n","t","h","l","y">>),
     Page(<<"/","s","u","b","s","c","r","i","p","t","i","o","n">>, Dec(0, 9), <<"m","o","n","t","h","l","y">>),
     Page(<<"/","n","a","t","u","r","a","l","-","s","e","p","t","i","c","-","s","o","l","u","t","i","o","n","s">>, Dec(0, 8), <<"m","o","n","t","h","l","y">>),
     Page(<<"/","r","v","-","s","e","p","t","i","c","-","t","r","e","a","t","m","e","n","t">>, Dec(0, 8), <<"m","o","n","t","h","l","y">>),
     Page(<<"/","s","e","p","t","i","c","-","t","a","n","k","-","m","a","i","n","t","e","n","a","n","c","e">>, Dec(0, 8), <<"m","o","n","t","h","l","y">>),
     Page(<<"/","a","b","o","u","t">>, Dec(0, 7), <<"m","o","n","t","h","l","y">>),
     Page(<<"/","c","o","n","t","a","c","t">>, Dec(0, 7), <<"m","o","n","t","h","l","y">>),
     Page(<<"/","f","a","q">>, Dec(0, 7), <<"m","o","n","t","h","l","y">>),
     Page(<<"/","p","r","i","v","a","c","y","-","p","o","l","i","c","y">>, Dec(0, 3), <<"y","e","a","r","l","y">>),
     Page(<<"/","t","e","r","m","s","-","o","f","-","s","e","r","v","i","c","e">>, Dec(0, 3), <<"y","e","a","r","l","y">>),
     Page(<<"/","r","e","f","u","n","d","-","p","o","l","i","c","y">>, Dec(0, 3), <<"y","e","a","r","l","y">>) >>

blogPosts ==
  << Page(<<"/","b","l","o","g","/","s","e","p","t","i","c","-","t","a","n","k","-","m","a","i","n","t","e","n","a","n","c","e","-","g","u","i","d","e">>, Dec(0, 7), <<"m","o","n","t","h","l","y">>),
     Page(<<"/","b","l","o","g","/","n","a","t","u","r","a","l","-","v","s","-","c","h","e","m","i","c","a","l","-","s","e","p","t","i","c","-","t","r","e","a","t","m","e","n","t","s">>, Dec(0, 7), <<"m","o","n","t","h","l","y">>),
     Page(<<"/","b","l","o","g","/","r","v","-","s","e","p","t","i","c","-","t","a","n","k","-","t","r","e","a","t","m","e","n","t","-","g","u","i","d","e">>, Dec(0, 7), <<"m","o","n","t","h","l","y">>),
     Page(<<"/","b","l","o","g","/","s","e","p","t","i","c","-","t","a","n","k","-","b","a","c","t","e","r","i","a","-","s","c","i","e","n","c","e">>, Dec(0, 7), <<"m","o","n","t","h","l","y">>),
     Page(<<"/","b","l","o","g","/","d","r","a","i","n","-","f","i","e","l","d","-","p","r","o","t","e","c","t","i","o","n","-","t","i","p","s">>, Dec(0, 7), <<"m","o","n","t","h","l","y">>),
     Page(<<"/","b","l","o","g","/","s","e","p","t","i","c","-","s","y","s","t","e","m","-","t","r","o","u","b","l","e","s","h","o","o","t","i","n","g">>, Dec(0, 7), <<"m","o","n","t","h","l","y">>) >>

\* new Date().toISOString().split('T')[0] for a day of the years 1000 to 9999
ISODate(d) ==
  LET pad(n, w) == [i \in 1..(w - Len(Digits(n))) |-> "0"] \o Digits(n)
  IN  pad(d.year, 4) \o <<"-">> \o pad(d.month, 2) \o <<"-">> \o pad(d.day, 2)

\* (faulty variant) the blog posts listed after the static pages
allPagesWithBlog == staticPages \o blogPosts

\* [...staticPages]
allPages == staticPages

NewLine == <<"\n">>

Quote == <<"\"">>

\* the text the template writes for one page
UrlEntry(page, date) ==
  <<" "," ","<","u","r","l",">">> \o NewLine
  \o <<" "," "," "," ","<","l","o","c",">">> \o SITE_URL \o page.url \o <<"<","/","l","o","c",">">> \o NewLine
  \o <<" "," "," "," ","<","l","a","s","t","m","o","d",">">> \o date \o <<"<","/","l","a","s","t","m","o","d",">">> \o NewLine
  \o <<" "," "," "," ","<","c","h","a","n","g","e","f","r","e","q",">">> \o page.changefreq \o <<"<","/","c","h","a","n","g","e","f","r","e","q",">">> \o NewLine
  \o <<" "," "," "," ","<","p","r","i","o","r","i","t","y",">">> \o ToStr(page.priority) \o <<"<","/","p","r","i","o","r","i","t","y",">">> \o NewLine
  \o <<" "," ","<","/","u","r","l",">">>

\* allPages.map(...).join('\n')
RECURSIVE JoinLines(_)
JoinLines(lines) ==
  IF lines = <<>> THEN <<>>
  ELSE IF Len(lines) = 1 THEN lines[1]
  ELSE lines[1] \o NewLine \o JoinLines(Tail(lines))

SitemapXml(date) ==
  <<"<","?","x","m","l"," ","v","e","r","s","i","o","n","=">> \o Quote \o <<"1",".","0">> \o Quote \o <<" ","e","n","c","o","d","i","n","g","=">> \o Quote \o <<"U","T","F","-","8">>
    \o Quote \o <<"?",">">> \o NewLine
  \o <<"<","u","r","l","s","e","t"," ","x","m","l","n","s","=">> \o Quote \o <<"h","t","t","p",":","/","/","w","w","w",".","s","i","t","e","m","a","p","s",".","o","r","g","/","s","c","h","e","m","a","s","/","s","i","t","e","m","a","p","/","0",".","9">> \o Quote
    \o <<">">> \o NewLine
  \o JoinLines([i \in 1..Len(allPages) |-> UrlEntry(allPages[i], date)]) \o NewLine
  \o <<"<","/","u","r","l","s","e","t",">">>

\* the days on which the handler may run
Clock ==
  { [year |-> y, month |-> m, day |-> d] :
      y \in {2025, 2026}, m \in 1..12, d \in (1..MaxDay) \cup {28} }

InitSitemap ==
  /\ BuilderIdle
  /\ HelperIdle
  /\ ShopIdle
  /\ currentDate = <<>>
  /\ response = Undefined
  /\ VariantIdle

GET ==
  /\ response = Undefined
  /\ \E now \in Clock :
       /\ currentDate' = ISODate(now)
       /\ response' = [ body |-> SitemapXml(ISODate(now)),
                        contentType |-> "application/xml",
                        cacheControl |-> "public, max-age=3600" ]
  /\ UNCHANGED <<builderVars, helperVars, shopVars, variantVars>>

NextSitemap == GET

SpecSitemap == InitSitemap /\ [][NextSitemap]_vars

-----------------------------------------------------------------------------
(* getResponsiveImageUrls of the alternate modules *)

\* one call on the image object of the URL library
Action(kind, w, h, arg) == [kind |-> kind, width |-> w, height |-> h, arg |-> arg]

\* getOptimizedImage of cloudinary-simple.js: the calls made on cld.image(pid)
getOptimizedImageSimple(pid, opts) ==
  LET w == Default(Get(opts, "width"), Num(800))
      h == Get(opts, "height")
      imageQuality == Default(Get(opts, "quality"), Str(<<"a","u","t","o">>))
      resize ==
        IF Truthy(w) /\ Truthy(h)
        THEN << Action("resize", Undefined, Undefined,
                       Str(<<"w","_">> \o ToStr(w) \o <<",","h","_">> \o ToStr(h) \o <<",","c","_","f","i","l","l">>)) >>
        ELSE IF Truthy(w)
        THEN << Action("resize", Undefined, Undefined,
                       Str(<<"w","_">> \o ToStr(w) \o <<",","c","_","s","c","a","l","e">>)) >>
        ELSE <<>>
      quality ==
        IF Truthy(imageQuality)
        THEN << Action("quality", Undefined, Undefined, imageQuality) >> ELSE <<>>
  IN  [publicId |-> pid, actions |-> resize \o quality]

\* getOptimizedImage of the url-gen module: the calls made on cld.image(pid)
getOptimizedImageUrlGen(pid, opts) ==
  LET w == Default(Get(opts, "width"), Num(800))
      h == Get(opts, "height")
      imageQuality == Default(Get(opts, "quality"), Str(<<"a","u","t","o">>))
      blur == Get(opts, "blur")
      overlay == Get(opts, "overlay")
  IN  [publicId |-> pid,
       actions |->
         << Action("format", Undefined, Undefined, Str(<<"a","u","t","o">>)),
            Action("quality", Undefined, Undefined, imageQuality),
            Action("resize", w, IF Truthy(h) THEN h ELSE Undefined, Str(<<"a","u","t","o">>)) >>
         \o (IF Truthy(blur)
              THEN << Action("effect", Undefined, Undefined, Str(<<"b","l","u","r",":">> \o ToStr(blur))) >>
              ELSE <<>>)
         \o (IF Truthy(overlay)
              THEN << Action("overlay", Undefined, Undefined, overlay) >> ELSE <<>>)]

getOptimizedImage(v, pid, opts) ==
  IF v = "simple" THEN getOptimizedImageSimple(pid, opts) ELSE getOptimizedImageUrlGen(pid, opts)

\* { quality: 'auto', ...options }, with format: 'auto' as well in the url-gen module
BaseOptions(v, opts) ==
  IF v = "simple" THEN Spread(<< <<"quality", Str(<<"a","u","t","o">>)>> >>, opts)
  ELSE Spread(<< <<"quality", Str(<<"a","u","t","o">>)>>, <<"format", Str(<<"a","u","t","o">>)>> >>, opts)

\* (faulty variant) the tier width written before the spread, so that the caller's wins
WithWidthFirst(baseOptions, w) == Spread(<< <<"width", w>> >>, baseOptions)

\* { ...baseOptions, width: w }
WithWidth(baseOptions, w) == Spread(baseOptions, << <<"width", w>> >>)

getResponsiveImageUrls(v, pid, opts) ==
  LET baseOptions == BaseOptions(v, opts)
  IN  [ mobile |-> getOptimizedImage(v, pid, WithWidth(baseOptions, Num(480))),
        tablet |-> getOptimizedImage(v, pid, WithWidth(baseOptions, Num(768))),
        desktop |-> getOptimizedImage(v, pid, WithWidth(baseOptions, Num(1200))),
        xl |-> getOptimizedImage(v, pid, WithWidth(baseOptions, Num(1920))) ]

\* what a caller may put into the options of the alternate modules
VariantValues(f) ==
  CASE f = "width" -> {Num(300), Num(0), Undefined}
    [] f = "height" -> {Num(200)}
    [] f = "quality" -> {Str(<<"a","u","t","o",":","l","o","w">>), Num(80), Num(0), Undefined}
    [] f = "format" -> {Str(<<"p","n","g">>)}
    [] f = "blur" -> {Num(400)}
    [] OTHER -> {}

VariantPairs ==
  UNION { { <<i, v>> : v \in VariantValues(FieldNames[i]) } : i \in 1..Len(FieldNames) }

VariantRecordsOfSize(n) ==
  { [i \in 1..n |-> <<FieldNames[pick[i][1]], pick[i][2]>>] :
      pick \in { p \in [1..n -> VariantPairs] :
                   \A i \in 1..n : i > 1 => p[i - 1][1] < p[i][1] } }

VariantRecords(n) == UNION { VariantRecordsOfSize(k) : k \in 0..n }

InitVariants ==
  /\ metaEnv = Env(Str(<<"p","t","p">>))
  /\ processEnv = AbsentEnv
  /\ publicId \in PublicIds
  /\ transforms = <<>>
  /\ transformParts = <<>>
  /\ url = <<>>
  /\ pc = "ready"
  /\ calls = <<>>
  /\ candidate = Undefined
  /\ valid = FALSE
  /\ vpc = "ready"
  /\ HelperIdle
  /\ ShopIdle
  /\ SitemapIdle
  /\ variant = ""
  /\ options \in VariantRecords(MaxBaseFields)
  /\ urls = Undefined

ResponsiveImageUrls ==
  /\ variant = ""
  /\ \E v \in {"simple", "urlgen"} :
       /\ variant' = v
       /\ urls' = getResponsiveImageUrls(v, publicId, options)
  /\ UNCHANGED <<builderVars, helperVars, shopVars, sitemapVars, options>>

NextVariants == ResponsiveImageUrls

SpecVariants == InitVariants /\ [][NextVariants]_vars

-----------------------------------------------------------------------------
(* validatePublicId applied to one input *)

\* the strings of at most n characters
StringsUpTo(n) == UNION { [1..k -> IdAlphabet] : k \in 0..n }

NonStrings == { Undefined, NaN, Num(0), Num(5), Bool(TRUE) }

InitValidate ==
  /\ \/ \E w \in StringsUpTo(MaxIdLen) : candidate = Str(w)
     \/ candidate \in NonStrings
  /\ valid = FALSE
  /\ vpc = "ready"
  /\ HelperIdle
  /\ ShopIdle
  /\ SitemapIdle
  /\ VariantIdle
  /\ metaEnv = Env(Str(<<"p","t","p">>))
  /\ processEnv = AbsentEnv
  /\ publicId = <<>>
  /\ transforms = <<>>
  /\ transformParts = <<>>
  /\ url = <<>>
  /\ pc = "ready"
  /\ calls = <<>>

Validate ==
  /\ vpc = "ready"
  /\ valid' = validatePublicId(candidate)
  /\ vpc' = "done"
  /\ UNCHANGED <<helperVars, shopVars, sitemapVars, variantVars, metaEnv, processEnv, publicId, transforms, transformParts, url, pc,
                 calls, candidate>>

NextValidate == Validate

SpecValidate == InitValidate /\ [][NextValidate]_vars

-----------------------------------------------------------------------------
(* Vocabulary of the properties *)

StartsWith(s, p) == Len(p) <= Len(s) /\ SubSeq(s, 1, Len(p)) = p

EndsWith(s, x) == Len(x) <= Len(s) /\ SubSeq(s, Len(s) - Len(x) + 1, Len(s)) = x

Contains(s, x) == \E i \in 1..(Len(s) - Len(x) + 1) : SubSeq(s, i, i + Len(x) - 1) = x

CountChar(s, c) == Cardinality({ i \in 1..Len(s) : s[i] = c })

\* the tokens separated by commas, written from the last token backwards
RECURSIVE CommaJoined(_)
CommaJoined(ts) ==
  IF Len(ts) = 0 THEN <<>>
  ELSE IF Len(ts) = 1 THEN ts[1].text
  ELSE CommaJoined(SubSeq(ts, 1, Len(ts) - 1)) \o <<",">> \o ts[Len(ts)].text

\* everything of a URL up to the transform segment
UploadRoot == <<"h","t","t","p","s",":","/","/","r","e","s",".","c","l","o","u","d","i","n","a","r","y",".","c","o","m","/">> \o ToStr(getCloudName) \o <<"/","i","m","a","g","e","/","u","p","l","o","a","d","/">>

\* what stands between the root and the "/" before the identifier
Segment == SubSeq(url, Len(UploadRoot) + 1, Len(url) - Len(publicId) - 1)

\* the same pairs in every insertion order
Reorderings(tr) ==
  IF tr = <<>> THEN {<<>>}
  ELSE { [i \in 1..Len(tr) |-> tr[p[i]]] : p \in Permutations(1..Len(tr)) }

\* the categories of the ordering policy, numbered as the specification lists them
Category(f) ==
  CASE f \in {"width", "height", "aspectRatio"} -> 1
    [] f = "dpr" -> 2
    [] f \in {"crop", "gravity"} -> 3
    [] f \in {"quality", "fetchFormat", "format"} -> 4
    [] f \in {"brightness", "contrast", "saturation", "gamma", "vibrance"} -> 5
    [] f \in {"hue", "opacity"} -> 6
    [] f \in {"blur", "sharpen", "unsharpMask"} -> 7
    [] f \in {"sepia", "grayscale", "blackwhite", "negate", "oilPaint", "vignette",
              "pixelate"} -> 8
    [] f \in {"border", "background"} -> 9
    [] f = "angle" -> 10
    [] f \in {"progressive", "immutableCache", "stripProfile"} -> 11
    [] f = "customTransform" -> 12

\* the position of a dimension token among the dimension tokens
DimensionRank(f) == CASE f = "width" -> 1 [] f = "height" -> 2 [] f = "aspectRatio" -> 3 [] OTHER -> 0

NumericFields ==
  {"width", "height", "dpr", "quality", "brightness", "contrast", "saturation", "gamma",
   "vibrance", "hue", "opacity", "blur", "sharpen", "sepia", "oilPaint", "vignette",
   "pixelate", "angle"}

\* the fields whose token is written whenever the field is defined
AlwaysEmitted ==
  {"brightness", "contrast", "saturation", "gamma", "vibrance", "hue", "opacity"}

\* the key code of a numeric field's token
TokenCode(f) ==
  CASE f = "width" -> <<"w","_">> [] f = "height" -> <<"h","_">> [] f = "dpr" -> <<"d","p","r","_">>
    [] f = "quality" -> <<"q","_">> [] f = "brightness" -> <<"e","_","b","r","i","g","h","t","n","e","s","s",":">>
    [] f = "contrast" -> <<"e","_","c","o","n","t","r","a","s","t",":">> [] f = "saturation" -> <<"e","_","s","a","t","u","r","a","t","i","o","n",":">>
    [] f = "gamma" -> <<"e","_","g","a","m","m","a",":">> [] f = "vibrance" -> <<"e","_","v","i","b","r","a","n","c","e",":">>
    [] f = "hue" -> <<"e","_","h","u","e",":">> [] f = "opacity" -> <<"o","_">> [] f = "blur" -> <<"e","_","b","l","u","r",":">>
    [] f = "sharpen" -> <<"e","_","s","h","a","r","p","e","n",":">> [] f = "sepia" -> <<"e","_","s","e","p","i","a",":">>
    [] f = "oilPaint" -> <<"e","_","o","i","l","_","p","a","i","n","t",":">> [] f = "vignette" -> <<"e","_","v","i","g","n","e","t","t","e",":">>
    [] f = "pixelate" -> <<"e","_","p","i","x","e","l","a","t","e",":">> [] f = "angle" -> <<"a","_">>

\* a number as the caller would write it
Written(v) ==
  CASE v = Num(0) -> <<"0">> [] v = Num(600) -> <<"6","0","0">> [] v = Num(200) -> <<"2","0","0">>
    [] v = Num(-5) -> <<"-","5">> [] v = Num(80) -> <<"8","0">> [] v = Dec(1, 5) -> <<"1",".","5">>
    [] v = Num(150) -> <<"1","5","0">> [] v = Num(-20) -> <<"-","2","0">> [] v = Num(50) -> <<"5","0">>
    [] v = Num(-101) -> <<"-","1","0","1">> [] v = Num(101) -> <<"1","0","1">> [] v = Num(400) -> <<"4","0","0">>
    [] v = Num(401) -> <<"4","0","1">> [] v = Num(30) -> <<"3","0">> [] v = Num(201) -> <<"2","0","1">>
    [] v = Num(-90) -> <<"-","9","0">> [] v = Num(300) -> <<"3","0","0">>

\* the values for which `if (x)` does not run its statement
EmptyValues == { Undefined, NaN, Num(0), Str(<<>>), Bool(FALSE) }

\* whether the i-th pair of the record is one that gets a token
Emits(tr, i) ==
  LET f == tr[i][1]
      v == tr[i][2]
  IN  IF f \in AlwaysEmitted THEN v # Undefined
      ELSE /\ v \notin EmptyValues
           /\ f = "format" => Get(tr, "fetchFormat") \in EmptyValues

PartsBy(f) == { j \in 1..Len(transformParts) : transformParts[j].by = f }

SlashesIn(v) == IF v.t = "str" THEN CountChar(v.s, "/") ELSE 0

RECURSIVE SlashesOfEmitting(_, _)
SlashesOfEmitting(tr, i) ==
  IF i > Len(tr) THEN 0
  ELSE (IF Emits(tr, i) THEN SlashesIn(tr[i][2]) ELSE 0) + SlashesOfEmitting(tr, i + 1)

-----------------------------------------------------------------------------
(* Properties of buildCloudinaryUrl *)

\* C1: the URL is the upload root, then the comma-joined tokens and one "/" when
\* there is at least one token, then the identifier verbatim; with no options it
\* is the root followed by the identifier, without an empty segment.
C1_UrlShape ==
  pc = "built" =>
    /\ url = UploadRoot
               \o (IF Len(transformParts) > 0 THEN CommaJoined(transformParts) \o <<"/">> ELSE <<>>)
               \o publicId
    /\ transforms = <<>> =>
         /\ url = <<"h","t","t","p","s",":","/","/","r","e","s",".","c","l","o","u","d","i","n","a","r","y",".","c","o","m","/","p","t","p","/","i","m","a","g","e","/","u","p","l","o","a","d","/">> \o publicId
         /\ ~Contains(url, <<"u","p","l","o","a","d","/","/">>)

C1_Witness ==
  /\ pc = "built"
  /\ transforms = PlaceholderOptions
  /\ publicId = <<"s","h","o","e","s","/","r","e","d">>
  /\ url = <<"h","t","t","p","s",":","/","/","r","e","s",".","c","l","o","u","d","i","n","a","r","y",".","c","o","m","/","p","t","p","/","i","m","a","g","e","/","u","p","l","o","a","d","/","w","_","5","0",",","q","_","a","u","t","o",":","l","o","w",",","f","_","a","u","t","o",",","e","_","b","l","u","r",":","4","0","0","/","s","h","o","e","s","/","r","e","d">>

\* C2: tokens come out in the category order dimensions (w, h, ar), dpr,
\* crop/gravity, quality/format, adjustments, color, effects, artistic effects,
\* border/background, rotation, flags, raw string, whichever fields are populated;
\* the shoes/red example yields w_300,h_200,c_fill,q_auto:good.
C2_CategoryOrder ==
  pc = "built" =>
    /\ \A i, j \in 1..Len(transformParts) :
         i < j =>
           /\ Category(transformParts[i].by) <= Category(transformParts[j].by)
           /\ Category(transformParts[j].by) = 1 =>
                DimensionRank(transformParts[i].by) < DimensionRank(transformParts[j].by)
    /\ (transforms = ShoesOptions /\ publicId = <<"s","h","o","e","s","/","r","e","d">>) =>
         url = UploadRoot \o <<"w","_","3","0","0",",","h","_","2","0","0",",","c","_","f","i","l","l",",","q","_","a","u","t","o",":","g","o","o","d">> \o <<"/","s","h","o","e","s","/","r","e","d">>

C2_Witness ==
  /\ pc = "built"
  /\ transforms = ShoesOptions
  /\ publicId = <<"s","h","o","e","s","/","r","e","d">>
  /\ Len(transformParts) = 4

\* C4: the URL does not depend on the order in which the fields of the options
\* record were set.
C4_InsertionOrderIrrelevant ==
  pc = "built" => \A tr \in Reorderings(transforms) : buildCloudinaryUrl(publicId, tr) = url

C4_Witness ==
  /\ pc = "built"
  /\ Len(transforms) = 2
  /\ Len(transformParts) = 2
  /\ transformParts[1].by = transforms[2][1]
  /\ transformParts[2].by = transforms[1][1]

\* C5 (as stated): every populated numeric field, whatever its value, has its
\* token with that value verbatim in the URL.
C5_EveryNumberVerbatim ==
  pc = "built" =>
    \A i \in 1..Len(transforms) :
      (transforms[i][1] \in NumericFields /\ transforms[i][2].t = "num") =>
        Contains(url, TokenCode(transforms[i][1]) \o Written(transforms[i][2]))

\* C5 (amended): a populated numeric field has its token with the value verbatim,
\* out-of-range values included, when the value is not 0 or the field is one of
\* brightness, contrast, saturation, gamma, vibrance, hue, opacity; a 0 (or NaN)
\* in any other numeric field gets no token.
C5_NonZeroNumberVerbatim ==
  pc = "built" =>
    \A i \in 1..Len(transforms) :
      LET f == transforms[i][1]
          v == transforms[i][2]
      IN  /\ (f \in NumericFields /\ v.t = "num" /\ (v.m # 0 \/ f \in AlwaysEmitted)) =>
               /\ \E j \in PartsBy(f) : transformParts[j].text = TokenCode(f) \o Written(v)
               /\ Contains(url, TokenCode(f) \o Written(v))
          /\ (f \in NumericFields \ AlwaysEmitted /\ (v = Num(0) \/ v = NaN)) =>
               PartsBy(f) = {}

C5_Witness ==
  /\ pc = "built"
  /\ Get(transforms, "height") = Num(-5)
  /\ Get(transforms, "opacity") = Num(0)
  /\ url = UploadRoot \o <<"h","_","-","5",",","o","_","0","/">> \o publicId

\* C6 (as stated): one token per populated field, none for an absent field, so
\* as many tokens as populated fields.
C6_OneTokenPerPopulatedField ==
  pc = "built" =>
    /\ Len(transformParts) = Len(transforms)
    /\ \A i \in 1..Len(transforms) : Cardinality(PartsBy(transforms[i][1])) = 1

\* C6 (amended): no token for an absent field and at most one per populated
\* field; a populated field has its token unless its value is 0, NaN, "", false
\* or undefined (brightness, contrast, saturation, gamma, vibrance, hue, opacity:
\* unless undefined), and format has none when fetchFormat has one; the number of
\* tokens is the number of fields that have one.
C6_OneTokenPerEmittingField ==
  pc = "built" =>
    /\ \A j \in 1..Len(transformParts) : HasField(transforms, transformParts[j].by)
    /\ \A i \in 1..Len(transforms) :
         Cardinality(PartsBy(transforms[i][1])) = IF Emits(transforms, i) THEN 1 ELSE 0
    /\ Len(transformParts) = Cardinality({ i \in 1..Len(transforms) : Emits(transforms, i) })
    /\ Len(transformParts) <= Len(transforms)

C6_Witness ==
  /\ pc = "built"
  /\ Get(transforms, "format") = Str(<<"w","e","b","p">>)
  /\ Get(transforms, "fetchFormat") = Str(<<"a","u","t","o">>)
  /\ Len(transformParts) = 1
  /\ transformParts[1].text = <<"f","_","a","u","t","o">>

\* C7 (as stated): whatever string values the options hold, the transform
\* segment contains no "/".
C7_SegmentSlashFree ==
  (pc = "built" /\ Len(transformParts) > 0) => CountChar(Segment, "/") = 0

\* C7 (amended): the builder writes no "/" of its own into the transform segment
\* and removes none: the segment's "/" characters are exactly those of the string
\* values of the fields that have a token, so the segment is slash-free when no
\* such value contains "/".
C7_SegmentSlashesFromValues ==
  (pc = "built" /\ Len(transformParts) > 0) =>
    /\ CountChar(Segment, "/") = SlashesOfEmitting(transforms, 1)
    /\ Segment = CommaJoined(transformParts)
    /\ url = UploadRoot \o Segment \o <<"/">> \o publicId

C7_Witness ==
  /\ pc = "built"
  /\ Get(transforms, "customTransform") = Str(<<"e","_","a","/","e","_","b">>)
  /\ Get(transforms, "border") = Str(<<"5","_","b","l","a","c","k">>)
  /\ Segment = <<"b","o","_","5","_","b","l","a","c","k",",","e","_","a","/","e","_","b">>

\* C8: a non-empty customTransform is appended unmodified as a token of its own,
\* the last one of the segment.
C8_CustomTransformLast ==
  pc = "built" =>
    LET c == Get(transforms, "customTransform")
    IN  (c.t = "str" /\ c.s # <<>>) =>
          /\ Len(transformParts) > 0
          /\ transformParts[Len(transformParts)].text = c.s
          /\ PartsBy("customTransform") = {Len(transformParts)}
          /\ EndsWith(url, c.s \o <<"/">> \o publicId)
          /\ Len(transformParts) > 1 => EndsWith(url, <<",">> \o c.s \o <<"/">> \o publicId)

C8_Witness ==
  /\ pc = "built"
  /\ Get(transforms, "customTransform") = Str(<<"e","_","a","r","t",":","z","o","r","r","o">>)
  /\ Get(transforms, "stripProfile") = Bool(TRUE)
  /\ Segment = <<"f","l","_","s","t","r","i","p","_","p","r","o","f","i","l","e",",","e","_","a","r","t",":","z","o","r","r","o">>

\* C9: the builder never fails and never validates the identifier: for every
\* identifier, the empty one and those validatePublicId rejects included, it
\* returns a URL ending with the identifier; with "" and no options the URL ends
\* in "/image/upload/".
C9_NeverFailsNorValidates ==
  pc = "built" =>
    /\ StartsWith(url, <<"h","t","t","p","s",":","/","/","r","e","s",".","c","l","o","u","d","i","n","a","r","y",".","c","o","m","/">>)
    /\ EndsWith(url, <<"/">> \o publicId)
    /\ (publicId = <<>> /\ transforms = <<>>) =>
         url = <<"h","t","t","p","s",":","/","/","r","e","s",".","c","l","o","u","d","i","n","a","r","y",".","c","o","m","/","p","t","p","/","i","m","a","g","e","/","u","p","l","o","a","d","/">>

C9_Witness ==
  /\ pc = "built"
  /\ publicId = <<"a"," ","b">>
  /\ ~validatePublicId(Str(publicId))
  /\ EndsWith(url, <<"/","a"," ","b">>)

-----------------------------------------------------------------------------
(* Properties of a sequence of calls *)

\* C3: two calls with the same identifier, the same options and the same
\* configured cloud name return the same string, whatever was called in between.
C3_Deterministic ==
  \A i, j \in 1..Len(calls) :
    ( /\ calls[i].publicId = calls[j].publicId
      /\ calls[i].transforms = calls[j].transforms
      /\ calls[i].metaEnv = calls[j].metaEnv
      /\ calls[i].processEnv = calls[j].processEnv ) => calls[i].url = calls[j].url

C3_Witness ==
  /\ Len(calls) = 3
  /\ calls[1].publicId = calls[3].publicId
  /\ calls[1].transforms = calls[3].transforms
  /\ calls[1].metaEnv = calls[3].metaEnv
  /\ calls[2].transforms # calls[1].transforms
  /\ calls[1].transforms = ShoesOptions
  /\ calls[1].url = calls[3].url

-----------------------------------------------------------------------------
(* Properties of validatePublicId *)

\* letters, digits, underscore, hyphen, slash and dot among the characters used
AllowedChars == {"a", "z", "A", "Z", "0", "9", "_", "-", "/", "."}

\* C10: validatePublicId returns true exactly for a non-empty string made only of
\* letters, digits, underscore, hyphen, slash and dot, false for anything else.
C10_ValidExactlyAllowedChars ==
  vpc = "done" =>
    valid = ( /\ candidate.t = "str"
              /\ candidate.s # <<>>
              /\ \A i \in 1..Len(candidate.s) : candidate.s[i] \in AllowedChars )

C10_Witness ==
  /\ vpc = "done"
  /\ candidate = Str(<<"a"," ","z">>)
  /\ valid = FALSE

-----------------------------------------------------------------------------
(* The account segment *)

Host == <<"h","t","t","p","s",":","/","/","r","e","s",".","c","l","o","u","d","i","n","a","r","y",".","c","o","m","/">>

\* what stands between the host and the next "/"
AccountSegment(u) ==
  LET rest == SubSeq(u, Len(Host) + 1, Len(u))
      k == CHOOSE i \in 1..Len(rest) : rest[i] = "/" /\ \A j \in 1..(i - 1) : rest[j] # "/"
  IN  SubSeq(rest, 1, k - 1)

\* the value configured for PUBLIC_CLOUDINARY_CLOUD_NAME: the one of
\* import.meta.env when that object exists, else the one of process.env
Configured(meta, process) ==
  IF meta.present THEN meta.PUBLIC_CLOUDINARY_CLOUD_NAME
  ELSE IF process.present THEN process.PUBLIC_CLOUDINARY_CLOUD_NAME ELSE Undefined

ExpectedAccount(meta, process) ==
  LET v == Configured(meta, process)
  IN  IF v.t = "str" /\ v.s # <<>> THEN v.s ELSE <<"d","e","m","o">>

\* C11: the account segment of every URL is the configured
\* PUBLIC_CLOUDINARY_CLOUD_NAME when it is set and non-empty and the literal
\* "demo" when it is unset or empty; when import.meta.env exists the value of
\* process.env plays no part.
C11_AccountSegment ==
  pc = "built" =>
    /\ StartsWith(url, Host)
    /\ AccountSegment(url) = ExpectedAccount(metaEnv, processEnv)
    /\ metaEnv.present =>
         AccountSegment(url) = ExpectedAccount(metaEnv, AbsentEnv)

C11_Witness ==
  /\ pc = "built"
  /\ metaEnv = Env(Undefined)
  /\ processEnv = Env(Str(<<"s","r","v">>))
  /\ AccountSegment(url) = <<"d","e","m","o">>

-----------------------------------------------------------------------------
(* Vocabulary of the helpers' properties *)

\* the transform segment of a URL that ends with "/" and the identifier pid
SegmentOf(u, pid) == SubSeq(u, Len(UploadRoot) + 1, Len(u) - Len(pid) - 1)

\* the comma-separated tokens of a segment
RECURSIVE SplitComma(_)
SplitComma(s) ==
  IF \E i \in 1..Len(s) : s[i] = ","
  THEN LET k == CHOOSE i \in 1..Len(s) : s[i] = "," /\ \A j \in 1..(i - 1) : s[j] # ","
       IN  <<SubSeq(s, 1, k - 1)>> \o SplitComma(SubSeq(s, k + 1, Len(s)))
  ELSE IF s = <<>> THEN <<>> ELSE <<s>>

TokensOf(u, pid) == LET ts == SplitComma(SegmentOf(u, pid)) IN { ts[i] : i \in 1..Len(ts) }

\* the tokens that begin with a key code
TokensWith(u, pid, code) == { t \in TokensOf(u, pid) : StartsWith(t, code) }

LastSpace(t) == CHOOSE i \in 1..Len(t) : t[i] = " " /\ \A j \in (i + 1)..Len(t) : t[j] # " "

\* the two halves of a srcset entry
EntryUrl(e) == SubSeq(e.text, 1, LastSpace(e.text) - 1)

EntryDescriptor(e) == SubSeq(e.text, LastSpace(e.text) + 1, Len(e.text))

DigitValue(c) ==
  CASE c = "0" -> 0 [] c = "1" -> 1 [] c = "2" -> 2 [] c = "3" -> 3 [] c = "4" -> 4
    [] c = "5" -> 5 [] c = "6" -> 6 [] c = "7" -> 7 [] c = "8" -> 8 [] c = "9" -> 9

\* the number a string of digits denotes
RECURSIVE ParseNat(_)
ParseNat(s) ==
  IF s = <<>> THEN 0 ELSE 10 * ParseNat(SubSeq(s, 1, Len(s) - 1)) + DigitValue(s[Len(s)])

\* the width a descriptor such as "600w" names
DescriptorWidth(d) == ParseNat(SubSeq(d, 1, Len(d) - 1))

\* how often x occurs in s
CountSub(s, x) ==
  Cardinality({ i \in 1..(Len(s) - Len(x) + 1) : SubSeq(s, i, i + Len(x) - 1) = x })

\* the entries a srcset string holds
EntriesIn(set) == IF set = <<>> THEN 0 ELSE CountSub(set, <<","," ">>) + 1

TierWidths == << 400, 800, 1200, 1600 >>

\* whether supportDpr, as passed, asks for the ratio variants
WantsDpr == supportDpr \in { Undefined, Bool(TRUE) }

-----------------------------------------------------------------------------
(* Properties of the helpers *)

\* C13: the placeholder URL has a width token of at most 50 and a blur token;
\* its transform segment is exactly "w_50,q_auto:low,f_auto,e_blur:400",
\* followed by "/" and the identifier.
C13_Placeholder ==
  fn = "getPlaceholderUrl" =>
    /\ url = UploadRoot \o <<"w","_","5","0",",","q","_","a","u","t","o",":","l","o","w",",","f","_","a","u","t","o",",","e","_","b","l","u","r",":","4","0","0">> \o <<"/">> \o publicId
    /\ TokensWith(url, publicId, <<"w","_">>) # {}
    /\ \A t \in TokensWith(url, publicId, <<"w","_">>) :
         ParseNat(SubSeq(t, 3, Len(t))) <= 50
    /\ TokensWith(url, publicId, <<"e","_","b","l","u","r",":">>) # {}

C13_Witness ==
  /\ fn = "getPlaceholderUrl"
  /\ publicId = <<"s","h","o","e","s","/","r","e","d">>
  /\ url = <<"h","t","t","p","s",":","/","/","r","e","s",".","c","l","o","u","d","i","n","a","r","y",".","c","o","m","/","p","t","p","/","i","m","a","g","e","/","u","p","l","o","a","d","/","w","_","5","0",",","q","_","a","u","t","o",":","l","o","w",",","f","_","a","u","t","o",",","e","_","b","l","u","r",":","4","0","0","/","s","h","o","e","s","/","r","e","d">>

\* C14: the srcset of getCloudinaryResponsiveSet has exactly four entries, for
\* the widths 400, 800, 1200 and 1600; the srcset of getCloudinaryDprSrcset has
\* twelve entries when supportDpr is true and four when it is false.
C14_EntryCounts ==
  /\ fn = "getCloudinaryResponsiveSet" =>
       /\ Len(srcsetEntries) = 4
       /\ EntriesIn(srcset) = 4
       /\ \A i \in 1..4 : DescriptorWidth(EntryDescriptor(srcsetEntries[i])) = TierWidths[i]
  /\ fn = "getCloudinaryDprSrcset" =>
       /\ Len(srcsetEntries) = IF WantsDpr THEN 12 ELSE 4
       /\ EntriesIn(srcset) = IF WantsDpr THEN 12 ELSE 4

C14_Witness ==
  /\ fn = "getCloudinaryDprSrcset"
  /\ supportDpr = Bool(TRUE)
  /\ baseTransforms # <<>>
  /\ Len(srcsetEntries) = 12
  /\ EntriesIn(srcset) = 12

\* C15 as stated: in the srcset of both helpers the width descriptors of the
\* entries appear in ascending order from the first entry to the last.
C15_DescriptorsAscending ==
  fn \in {"getCloudinaryResponsiveSet", "getCloudinaryDprSrcset"} =>
    \A i, j \in 1..Len(srcsetEntries) :
      i < j => DescriptorWidth(EntryDescriptor(srcsetEntries[i]))
                 <= DescriptorWidth(EntryDescriptor(srcsetEntries[j]))

\* the crop and the quality of a srcset URL
CropOf(base) == IF Truthy(Get(base, "crop")) THEN Get(base, "crop") ELSE Str(<<"f","i","l","l">>)

QualityOf(base) == IF Truthy(Get(base, "quality")) THEN Get(base, "quality") ELSE Str(<<"a","u","t","o">>)

\* the tokens the builder writes for the base options alone
BaseTokens(f) ==
  LET parts == BuildParts(baseTransforms)
  IN  { parts[i].text : i \in { j \in 1..Len(parts) : parts[j].by = f } }

\* C16 as stated: every URL of getCloudinaryResponsiveSet carries the tier width
\* (equal to the entry's descriptor) in place of the base width, the base crop
\* when set and "fill" otherwise, the base quality when set and "auto"
\* otherwise, and every other base option unchanged.
C16_OtherOptionsUnchanged ==
  fn = "getCloudinaryResponsiveSet" =>
    \A k \in 1..Len(srcsetEntries) :
      LET u == EntryUrl(srcsetEntries[k])
      IN  /\ TokensWith(u, publicId, <<"w","_">>)
               = { <<"w","_">> \o SubSeq(EntryDescriptor(srcsetEntries[k]), 1,
                                      Len(EntryDescriptor(srcsetEntries[k])) - 1) }
          /\ <<"c","_">> \o ToStr(CropOf(baseTransforms)) \in TokensOf(u, publicId)
          /\ <<"q","_">> \o ToStr(QualityOf(baseTransforms)) \in TokensOf(u, publicId)
          /\ \A i \in 1..Len(FieldNames) :
               FieldNames[i] \notin {"width", "crop", "quality"}
                 => BaseTokens(FieldNames[i]) \subseteq TokensOf(u, publicId)

\* the options the C16 URL is built from: the base options with width, crop,
\* quality and format replaced
TierOptions(base, w) ==
  LET value(f) == CASE f = "width" -> Num(w)
                    [] f = "crop" -> CropOf(base)
                    [] f = "quality" -> QualityOf(base)
                    [] f = "format" -> Str(<<"w","e","b","p">>)
                    [] OTHER -> Get(base, f)
      RECURSIVE from(_)
      from(i) ==
        IF i > Len(FieldNames) THEN <<>>
        ELSE (IF HasField(base, FieldNames[i])
                   \/ FieldNames[i] \in {"width", "crop", "quality", "format"}
              THEN << <<FieldNames[i], value(FieldNames[i])>> >> ELSE <<>>) \o from(i + 1)
  IN  from(1)

\* C16: every URL of getCloudinaryResponsiveSet carries the tier width (equal
\* to the entry's descriptor) in place of the base width, the base crop when
\* it is non-empty and "fill" otherwise, the base quality when it is neither
\* 0 nor empty and "auto" otherwise, and the format "webp" in place of the
\* base format; every base option other than these four is carried unchanged.
C16_TierOptions ==
  fn = "getCloudinaryResponsiveSet" =>
    \A k \in 1..Len(srcsetEntries) :
      LET u == EntryUrl(srcsetEntries[k])
          w == DescriptorWidth(EntryDescriptor(srcsetEntries[k]))
      IN  /\ w = TierWidths[k]
          /\ u = buildCloudinaryUrl(publicId, TierOptions(baseTransforms, w))
          /\ TokensWith(u, publicId, <<"w","_">>) = { <<"w","_">> \o Digits(w) }
          /\ <<"c","_">> \o ToStr(CropOf(baseTransforms)) \in TokensOf(u, publicId)
          /\ <<"q","_">> \o ToStr(QualityOf(baseTransforms)) \in TokensOf(u, publicId)
          /\ \A i \in 1..Len(FieldNames) :
               FieldNames[i] \notin {"width", "crop", "quality", "format"}
                 => BaseTokens(FieldNames[i]) \subseteq TokensOf(u, publicId)
          /\ Truthy(Get(baseTransforms, "fetchFormat"))
               \/ <<"f","_","w","e","b","p">> \in TokensOf(u, publicId)

C16_Witness ==
  /\ fn = "getCloudinaryResponsiveSet"
  /\ publicId = <<"s","h","o","e","s","/","r","e","d">>
  /\ baseTransforms = << <<"width", Num(600)>>, <<"format", Str(<<"p","n","g">>)>> >>
  /\ EntryUrl(srcsetEntries[1])
       = <<"h","t","t","p","s",":","/","/","r","e","s",".","c","l","o","u","d","i","n","a","r","y",".","c","o","m","/","p","t","p","/","i","m","a","g","e","/","u","p","l","o","a","d","/","w","_","4","0","0",",","c","_","f","i","l","l",",","q","_","a","u","t","o",",","f","_","w","e","b","p","/","s","h","o","e","s","/","r","e","d">>

\* ten times a ratio
RatioTenths == << 10, 15, 20 >>

\* C17: getCloudinaryDprSrcset combines each breakpoint with each of the ratios
\* 1, 1.5 and 2; the URL of a pair carries w_<tier width> and dpr_<ratio> in
\* place of the base width and dpr, and its descriptor is tier width times
\* ratio followed by "w", the tier width itself at ratio 1.
C17_DprPairs ==
  ( fn = "getCloudinaryDprSrcset" /\ WantsDpr ) =>
    \A i \in 1..4, j \in 1..3 :
      LET e == srcsetEntries[3 * (i - 1) + j]
          u == EntryUrl(e)
          ratio == IF j = 2 THEN <<"1",".","5">> ELSE Digits(RatioTenths[j] \div 10)
      IN  /\ TokensWith(u, publicId, <<"w","_">>) = { <<"w","_">> \o Digits(TierWidths[i]) }
          /\ TokensWith(u, publicId, <<"d","p","r","_">>) = { <<"d","p","r","_">> \o ratio }
          /\ 10 * DescriptorWidth(EntryDescriptor(e)) = TierWidths[i] * RatioTenths[j]
          /\ EntryDescriptor(e)
               = Digits((TierWidths[i] * RatioTenths[j]) \div 10) \o <<"w">>

C17_Witness ==
  /\ fn = "getCloudinaryDprSrcset"
  /\ WantsDpr
  /\ publicId = <<"s","h","o","e","s","/","r","e","d">>
  /\ baseTransforms = << <<"width", Num(600)>>, <<"dpr", Num(3)>> >>
  /\ srcsetEntries[2].text
       = <<"h","t","t","p","s",":","/","/","r","e","s",".","c","l","o","u","d","i","n","a","r","y",".","c","o","m","/","p","t","p","/","i","m","a","g","e","/","u","p","l","o","a","d","/","w","_","4","0","0",",","d","p","r","_","1",".","5",",","c","_","f","i","l","l",",","q","_","a","u","t","o",",","f","_","a","u","t","o","/","s","h","o","e","s","/","r","e","d"," ","6","0","0","w">>

\* C18: for every width and height the fallback URL ends with "/sample" and
\* carries c_fill, q_auto:low and b_gray; without arguments it is built from
\* width 400, height 300, crop "fill", quality "auto:low", background "gray".
C18_Fallback ==
  fn = "getFallbackImageUrl" =>
    /\ EndsWith(url, <<"/","s","a","m","p","l","e">>)
    /\ { <<"c","_","f","i","l","l">>, <<"q","_","a","u","t","o",":","l","o","w">>, <<"b","_","g","r","a","y">> } \subseteq TokensOf(url, <<"s","a","m","p","l","e">>)
    /\ ( width = Undefined /\ height = Undefined ) =>
         /\ url = buildCloudinaryUrl(<<"s","a","m","p","l","e">>, FallbackOptions)
         /\ url = UploadRoot \o <<"w","_","4","0","0",",","h","_","3","0","0",",","c","_","f","i","l","l",",","q","_","a","u","t","o",":","l","o","w",",","b","_","g","r","a","y","/","s","a","m","p","l","e">>

C18_Witness ==
  /\ fn = "getFallbackImageUrl"
  /\ width = Num(640)
  /\ height = Undefined
  /\ url = <<"h","t","t","p","s",":","/","/","r","e","s",".","c","l","o","u","d","i","n","a","r","y",".","c","o","m","/","p","t","p","/","i","m","a","g","e","/","u","p","l","o","a","d","/","w","_","6","4","0",",","h","_","3","0","0",",","c","_","f","i","l","l",",","q","_","a","u","t","o",":","l","o","w",",","b","_","g","r","a","y","/","s","a","m","p","l","e">>

-----------------------------------------------------------------------------
(* Properties of the Shopify operations *)

StorefrontOperations == { "getProduct", "getProductById", "createCart", "addToCart", "buyNow" }

AdminOperations ==
  { "getShopInfo", "getRecentOrders", "getOrderById", "getCustomerById", "searchCustomers",
    "fulfillOrder", "addCustomerTags", "getPourThePortOrders" }

\* the outcomes that are a remote-call failure
Failures == { "failedResponse", "failedThrow", "httpError", "networkError" }

\* the values by which an operation reports that it has nothing
NothingValues == { "null", "false", "empty" }

\* C19 as stated: a remote-call failure in any Storefront or Admin operation is
\* caught and surfaced as null, false or an empty collection; no operation
\* propagates an exception.
C19_FailuresNeverPropagate ==
  ( op # "" /\ requests # <<>> /\ requests[Len(requests)].outcome \in Failures ) =>
    /\ ~threw
    /\ returned \in NothingValues

\* the domain or the token the operation needs is not set
Unconfigured ==
  \/ ~Truthy(STORE_DOMAIN)
  \/ op \in StorefrontOperations /\ ~Truthy(STOREFRONT_ACCESS_TOKEN)
  \/ op \in AdminOperations /\ ~Truthy(ADMIN_ACCESS_TOKEN)

\* C20 as stated: when the store domain or the required access token is unset,
\* every Storefront and Admin operation returns null or an empty collection
\* (false for addCustomerTags) without issuing a network request and without
\* throwing.
C20_UnconfiguredShortCircuits ==
  ( op # "" /\ Unconfigured ) =>
    /\ requests = <<>>
    /\ ~threw
    /\ returned \in NothingValues

\* two requests that are attempts of the same call
SameCall(r1, r2) == r1.api = r2.api /\ r1.what = r2.what /\ r1.method = r2.method

\* C21: within one invocation of an operation every external call is attempted
\* once: no two requests of the invocation are attempts of the same call, and a
\* failed request is never followed by another attempt of its call.
C21_NoRetry ==
  op # "" =>
    /\ \A i, j \in 1..Len(requests) : i < j => ~SameCall(requests[i], requests[j])
    /\ \A i \in 1..Len(requests) :
         requests[i].outcome \in Failures
           => \A j \in (i + 1)..Len(requests) : ~SameCall(requests[i], requests[j])

C21_Witness ==
  /\ op = "getProduct"
  /\ Len(requests) = 2
  /\ requests[1].outcome = "failedResponse"
  /\ requests[2].what = "PRODUCT_BY_ID_QUERY"

-----------------------------------------------------------------------------
(* Properties of the sitemap handler *)

\* where x occurs in s, in ascending order
Occurrences(s, x) ==
  LET at == { i \in 1..(Len(s) - Len(x) + 1) : SubSeq(s, i, i + Len(x) - 1) = x }
  IN  [k \in 1..Cardinality(at) |-> CHOOSE i \in at : Cardinality({ j \in at : j < i }) = k - 1]

\* the text of the first element named tag in s
ElementText(s, tag) ==
  LET open == <<"<">> \o tag \o <<">">>
      close == <<"<","/">> \o tag \o <<">">>
      from == Occurrences(s, open)[1] + Len(open)
      to == Occurrences(s, close)[1] - 1
  IN  SubSeq(s, from, to)

\* the url elements of a document, in document order
UrlElements(body) ==
  LET opens == Occurrences(body, <<"<","u","r","l",">">>)
      closes == Occurrences(body, <<"<","/","u","r","l",">">>)
  IN  [k \in 1..Len(opens) |-> SubSeq(body, opens[k], closes[k] + Len(<<"<","/","u","r","l",">">>) - 1)]

\* C22: the sitemap response is an XML urlset with exactly one url entry per
\* static page, in list order, each with loc = the site URL followed by the
\* page path, the page's changefreq and priority, and one lastmod date shared
\* by all entries; no blog post has an entry.
C22_SitemapEntries ==
  response # Undefined =>
    LET entries == UrlElements(response.body)
    IN  /\ Contains(response.body, <<"<","u","r","l","s","e","t"," ","x","m","l","n","s","=">>)
        /\ EndsWith(response.body, <<"<","/","u","r","l","s","e","t",">">>)
        /\ Len(entries) = Len(staticPages)
        /\ Len(Occurrences(response.body, <<"<","/","u","r","l",">">>)) = Len(staticPages)
        /\ \A k \in 1..Len(entries) :
             /\ ElementText(entries[k], <<"l","o","c">>)
                  = <<"h","t","t","p","s",":","/","/","w","w","w",".","p","o","u","r","t","h","e","p","o","r","t",".","c","o","m">> \o staticPages[k].url
             /\ ElementText(entries[k], <<"c","h","a","n","g","e","f","r","e","q">>) = staticPages[k].changefreq
             /\ ElementText(entries[k], <<"p","r","i","o","r","i","t","y">>) = ToStr(staticPages[k].priority)
             /\ ElementText(entries[k], <<"l","a","s","t","m","o","d">>) = ElementText(entries[1], <<"l","a","s","t","m","o","d">>)
             /\ ElementText(entries[k], <<"l","a","s","t","m","o","d">>) = currentDate
        /\ \A b \in 1..Len(blogPosts) : ~Contains(response.body, blogPosts[b].url)

C22_Witness ==
  /\ response # Undefined
  /\ currentDate = <<"2","0","2","6","-","0","3","-","0","5">>
  /\ Len(UrlElements(response.body)) = 12
  /\ ElementText(UrlElements(response.body)[1], <<"l","o","c">>) = <<"h","t","t","p","s",":","/","/","w","w","w",".","p","o","u","r","t","h","e","p","o","r","t",".","c","o","m">>
  /\ ElementText(UrlElements(response.body)[1], <<"p","r","i","o","r","i","t","y">>) = <<"1">>
  /\ ElementText(UrlElements(response.body)[12], <<"l","o","c">>)
       = <<"h","t","t","p","s",":","/","/","w","w","w",".","p","o","u","r","t","h","e","p","o","r","t",".","c","o","m","/","r","e","f","u","n","d","-","p","o","l","i","c","y">>
  /\ ElementText(UrlElements(response.body)[12], <<"l","a","s","t","m","o","d">>) = <<"2","0","2","6","-","0","3","-","0","5">>

-----------------------------------------------------------------------------
(* Properties of the alternate getResponsiveImageUrls *)

ActionsOf(image, kind) ==
  { image.actions[i] : i \in { j \in 1..Len(image.actions) : image.actions[j].kind = kind } }

\* whether the image is resized to the width w, by either module's means
BuiltForWidth(image, w) ==
  /\ Cardinality(ActionsOf(image, "resize")) = 1
  /\ \A a \in ActionsOf(image, "resize") :
       IF a.width = Undefined
       THEN StartsWith(a.arg.s, <<"w","_">> \o Digits(w) \o <<",">>)
       ELSE a.width = Num(w)

\* the quality the caller gave, undefined when none
GivenQuality == Get(options, "quality")

\* C23: getResponsiveImageUrls of the alternate modules returns exactly the
\* keys mobile, tablet, desktop and xl, built for the widths 480, 768, 1200 and
\* 1920; a width in the caller's options never changes them, and the quality
\* is "auto" by default only when the caller gives none.
C23_FixedTiers ==
  urls # Undefined =>
    /\ DOMAIN urls = {"mobile", "tablet", "desktop", "xl"}
    /\ BuiltForWidth(urls.mobile, 480)
    /\ BuiltForWidth(urls.tablet, 768)
    /\ BuiltForWidth(urls.desktop, 1200)
    /\ BuiltForWidth(urls.xl, 1920)
    /\ \A k \in DOMAIN urls :
         /\ urls[k].publicId = publicId
         /\ GivenQuality = Undefined
              => { a.arg : a \in ActionsOf(urls[k], "quality") } = { Str(<<"a","u","t","o">>) }
         /\ GivenQuality # Undefined
              => { a.arg : a \in ActionsOf(urls[k], "quality") } \subseteq { GivenQuality }

C23_Witness ==
  /\ variant = "simple"
  /\ options = << <<"width", Num(300)>>, <<"quality", Str(<<"a","u","t","o",":","l","o","w">>)>> >>
  /\ urls.mobile.actions
       = << Action("resize", Undefined, Undefined, Str(<<"w","_","4","8","0",",","c","_","s","c","a","l","e">>)),
            Action("quality", Undefined, Undefined, Str(<<"a","u","t","o",":","l","o","w">>)) >>

\* C24: getProduct issues the by-handle request first; the by-ID request is
\* issued only after the by-handle request completed without a product and
\* only when a product ID is configured, and its result is then returned; a
\* product found by handle ends the operation, and when the by-handle request
\* throws no by-ID request is issued and the result is null.
C24_HandleThenId ==
  ( op = "getProduct" /\ requests # <<>> ) =>
    /\ requests[1].what = "PRODUCT_BY_HANDLE_QUERY"
    /\ Len(requests) <= 2
    /\ Len(requests) = 2 <=>
         ( requests[1].outcome \in {"missing", "failedResponse"} /\ Truthy(PRODUCT_ID) )
    /\ Len(requests) = 2 =>
         /\ requests[2].what = "PRODUCT_BY_ID_QUERY"
         /\ returned = IF requests[2].outcome = "found" THEN "value" ELSE "null"
    /\ requests[1].outcome = "found" => ( Len(requests) = 1 /\ returned = "value" )
    /\ requests[1].outcome = "failedThrow" => ( Len(requests) = 1 /\ returned = "null" )
    /\ ~threw

C24_Witness ==
  /\ op = "getProduct"
  /\ Len(requests) = 2
  /\ requests[1].what = "PRODUCT_BY_HANDLE_QUERY"
  /\ requests[1].outcome = "missing"
  /\ requests[2].what = "PRODUCT_BY_ID_QUERY"
  /\ requests[2].outcome = "found"
  /\ returned = "value"

\* the elements of a list
Elements(list) == { list[i] : i \in 1..Len(list) }

\* where x occurs first in a list
FirstIndex(list, x) == CHOOSE i \in 1..Len(list) : list[i] = x /\ \A j \in 1..(i - 1) : list[j] # x

\* the tags a tag string holds
TagsIn(str) == IF str = <<>> THEN <<>> ELSE Split(str, <<","," ">>)

\* the tags the customer has
ExistingTagString == IF customerTags = Undefined THEN <<>> ELSE customerTags.s

\* the update requests of the operation
Puts == { i \in 1..Len(requests) : requests[i].method = "PUT" }

\* C25: the tag string addCustomerTags sends is the duplicate-free union of
\* the existing tags followed by the new tags, in first-occurrence order: no
\* existing tag is removed, no tag appears twice, and adding tags that are all
\* present already sends the existing tag string.
C25_TagUnion ==
  op = "addCustomerTags" =>
    \A p \in Puts :
      LET sentTags == TagsIn(requests[p].body.s)
          given == TagsIn(ExistingTagString) \o tags
      IN  /\ Elements(TagsIn(ExistingTagString)) \subseteq Elements(sentTags)
          /\ \A i, j \in 1..Len(sentTags) : sentTags[i] = sentTags[j] => i = j
          /\ Elements(sentTags) = Elements(given)
          /\ \A i, j \in 1..Len(sentTags) :
               i < j => FirstIndex(given, sentTags[i]) < FirstIndex(given, sentTags[j])
          /\ SubSeq(sentTags, 1, Len(TagsIn(ExistingTagString))) = TagsIn(ExistingTagString)
          /\ Elements(tags) \subseteq Elements(TagsIn(ExistingTagString))
               => requests[p].body.s = ExistingTagString

C25_Witness ==
  /\ op = "addCustomerTags"
  /\ customerTags = Str(<<"v","i","p",","," ","a">>)
  /\ tags = << <<"a">>, <<"b","2","b">> >>
  /\ Len(requests) = 2
  /\ requests[2].method = "PUT"
  /\ requests[2].body = Str(<<"v","i","p",","," ","a",","," ","b","2","b">>)
  /\ returned = "true"

\* the lookup of addCustomerTags returned a customer
LookupSucceeded ==
  /\ requests # <<>>
  /\ requests[1].method = "GET"
  /\ requests[1].what = "/customers/{id}.json"
  /\ requests[1].outcome = "ok"

\* C26: addCustomerTags never writes after a failed read: when the lookup
\* fails or finds no customer it returns false without a PUT request; it
\* returns true only when the PUT request was issued and succeeded, and false
\* when the PUT request failed.
C26_NoWriteAfterFailedRead ==
  op = "addCustomerTags" =>
    /\ ~threw
    /\ ~LookupSucceeded => ( Puts = {} /\ returned = "false" )
    /\ returned = "true" =>
         /\ LookupSucceeded
         /\ Puts = {2}
         /\ requests[2].outcome \notin Failures
    /\ \A p \in Puts : requests[p].outcome \in Failures => returned = "false"
    /\ LookupSucceeded => Puts = {2}

C26_Witness ==
  /\ op = "addCustomerTags"
  /\ tags = << <<"v","i","p">> >>
  /\ Len(requests) = 1
  /\ requests[1].method = "GET"
  /\ requests[1].outcome = "okWithout"
  /\ returned = "false"

-----------------------------------------------------------------------------
(* Properties of getOptimizedImageUrl and of the format tokens *)

\* the tokens the URL carries for one key code
UrlTokens(code) == TokensWith(url, publicId, code)

\* C27 as stated: the URL carries one crop and one quality token, c_fill and
\* q_auto when the option is unset and the given value otherwise; f_auto
\* unless options.format is false, and then no format token; width and height
\* tokens only for a supplied width or height.
C27_GivenValueOtherwise ==
  fn = "getOptimizedImageUrl" =>
    /\ UrlTokens(<<"c","_">>) =
         { <<"c","_">> \o ToStr(Default(Get(options, "crop"), Str(<<"f","i","l","l">>))) }
    /\ UrlTokens(<<"q","_">>) =
         { <<"q","_">> \o ToStr(Default(Get(options, "quality"), Str(<<"a","u","t","o">>))) }
    /\ UrlTokens(<<"f","_">>) =
         IF Get(options, "format") = Bool(FALSE) THEN {} ELSE { <<"f","_","a","u","t","o">> }
    /\ UrlTokens(<<"w","_">>) # {} =>
         /\ HasField(options, "width")
         /\ UrlTokens(<<"w","_">>) = { <<"w","_">> \o ToStr(Get(options, "width")) }
    /\ UrlTokens(<<"h","_">>) # {} =>
         /\ HasField(options, "height")
         /\ UrlTokens(<<"h","_">>) = { <<"h","_">> \o ToStr(Get(options, "height")) }

\* C27 (amended): as stated, except that a quality of 0 counts as unset and
\* gives q_auto.
C27_OptimizedTokens ==
  fn = "getOptimizedImageUrl" =>
    /\ UrlTokens(<<"c","_">>) =
         { <<"c","_">> \o ToStr(Default(Get(options, "crop"), Str(<<"f","i","l","l">>))) }
    /\ UrlTokens(<<"q","_">>) =
         { <<"q","_">> \o ToStr(IF Get(options, "quality") \in { Undefined, Num(0) }
                           THEN Str(<<"a","u","t","o">>) ELSE Get(options, "quality")) }
    /\ UrlTokens(<<"f","_">>) =
         IF Get(options, "format") = Bool(FALSE) THEN {} ELSE { <<"f","_","a","u","t","o">> }
    /\ UrlTokens(<<"w","_">>) # {} =>
         /\ HasField(options, "width")
         /\ UrlTokens(<<"w","_">>) = { <<"w","_">> \o ToStr(Get(options, "width")) }
    /\ UrlTokens(<<"h","_">>) # {} =>
         /\ HasField(options, "height")
         /\ UrlTokens(<<"h","_">>) = { <<"h","_">> \o ToStr(Get(options, "height")) }

C27_Witness ==
  /\ fn = "getOptimizedImageUrl"
  /\ publicId = <<"s","h","o","e","s","/","r","e","d">>
  /\ options = << <<"quality", Num(0)>>, <<"format", Bool(FALSE)>> >>
  /\ url = <<"h","t","t","p","s",":","/","/","r","e","s",".","c","l","o","u","d","i","n","a","r","y",".","c","o","m","/","p","t","p","/","i","m","a","g","e","/","u","p","l","o","a","d","/","c","_","f","i","l","l",",","q","_","a","u","t","o","/","s","h","o","e","s","/","r","e","d">>

\* C28: buildCloudinaryUrl emits at most one format token: f_<fetchFormat>
\* when fetchFormat holds a value, whatever format holds; f_<format> when only
\* format holds a value; none when neither does.
C28_OneFormatToken ==
  pc = "built" =>
    LET fetchFormat == Get(transforms, "fetchFormat")
        format == Get(transforms, "format")
    IN  /\ Cardinality(UrlTokens(<<"f","_">>)) <= 1
        /\ Cardinality(PartsBy("fetchFormat") \cup PartsBy("format")) <= 1
        /\ UrlTokens(<<"f","_">>) =
             IF Truthy(fetchFormat) THEN { <<"f","_">> \o ToStr(fetchFormat) }
             ELSE IF Truthy(format) THEN { <<"f","_">> \o ToStr(format) }
             ELSE {}

C28_Witness ==
  /\ pc = "built"
  /\ transforms = << <<"format", Str(<<"w","e","b","p">>)>>, <<"fetchFormat", Str(<<"a","u","t","o">>)>> >>
  /\ url = <<"h","t","t","p","s",":","/","/","r","e","s",".","c","l","o","u","d","i","n","a","r","y",".","c","o","m","/","p","t","p","/","i","m","a","g","e","/","u","p","l","o","a","d","/","f","_","a","u","t","o","/","s","h","o","e","s","/","r","e","d">>

\* the fields whose statement is skipped for the value 0
SkippedAtZero ==
  {"width", "height", "dpr", "quality", "blur", "sharpen", "sepia", "oilPaint",
   "vignette", "pixelate", "angle"}

\* the boolean flags
Flags == {"grayscale", "negate", "progressive", "immutableCache", "stripProfile"}

\* C29: brightness, contrast, saturation, gamma, vibrance, hue and opacity emit
\* their token whenever the field is defined, 0 included ("o_0"); width,
\* height, dpr, quality, blur, sharpen, sepia, oilPaint, vignette, pixelate
\* and angle emit no token for the value 0; a boolean flag emits its token
\* only when it is true.
C29_ZeroByGroup ==
  pc = "built" =>
    \A i \in 1..Len(transforms) :
      LET f == transforms[i][1]
          v == transforms[i][2]
      IN  /\ f \in AlwaysEmitted /\ v # Undefined =>
               /\ Cardinality(PartsBy(f)) = 1
               /\ UrlTokens(TokenCode(f)) = { TokenCode(f) \o ToStr(v) }
          /\ f \in AlwaysEmitted /\ v = Num(0) =>
               TokenCode(f) \o <<"0">> \in TokensOf(url, publicId)
          /\ f \in SkippedAtZero /\ v = Num(0) =>
               /\ PartsBy(f) = {}
               /\ UrlTokens(TokenCode(f)) = {}
          /\ f \in Flags =>
               ( StatementOf(f).code \in TokensOf(url, publicId) <=> v = Bool(TRUE) )

C29_Witness ==
  /\ pc = "built"
  /\ transforms = << <<"width", Num(0)>>, <<"opacity", Num(0)>> >>
  /\ url = <<"h","t","t","p","s",":","/","/","r","e","s",".","c","l","o","u","d","i","n","a","r","y",".","c","o","m","/","p","t","p","/","i","m","a","g","e","/","u","p","l","o","a","d","/","o","_","0","/","s","h","o","e","s","/","r","e","d">>

\* C30: for every base options record every URL in the srcset of
\* getCloudinaryResponsiveSet carries the format token f_webp, whatever format
\* options the base record holds, and every URL in the srcset of
\* getCloudinaryDprSrcset carries f_auto.
C30_ForcedFormats ==
  /\ fn = "getCloudinaryResponsiveSet" =>
       \A k \in 1..Len(srcsetEntries) :
         TokensWith(EntryUrl(srcsetEntries[k]), publicId, <<"f","_">>) = { <<"f","_","w","e","b","p">> }
  /\ fn = "getCloudinaryDprSrcset" =>
       \A k \in 1..Len(srcsetEntries) :
         TokensWith(EntryUrl(srcsetEntries[k]), publicId, <<"f","_">>) = { <<"f","_","a","u","t","o">> }

====
